---- MODULE Spec2Model ----
(***************************************************************************)
(* The adaptive screening pipeline of stock_screener                       *)
(* (core/screener.py AdaptiveScreener and the functions it calls).         *)
(*                                                                         *)
(* Units.  Prices are integers in cents, percentages are whole percents,   *)
(* the clock is in hours.  The watched tickers below all have whole-dollar *)
(* prices, so every product the code forms (entry * 1.16, entry * 0.90,    *)
(* support * 0.99) is an exact number of cents.  A ratio the code keeps as *)
(* a float (volatility percent, risk/reward) is kept as [num, den].        *)
(***************************************************************************)
EXTENDS Integers, Sequences, FiniteSets, TLC

VARIABLES
    watchlist_file,   \* the watchlist file on disk: [state, content]
    cache,            \* data/cache: file name -> [timestamp, value]
    now,              \* time.time(), in hours
    pc,               \* where the scan is
    idx,              \* index of the running for-loop
    symbols,          \* _scan_symbols: symbols
    candidates,       \* _scan_symbols: candidates (Stage 1 output)
    scored_stocks,    \* _scan_symbols: scored_stocks (Stage 2 output)
    estimated_stocks, \* _scan_symbols: estimated_stocks (Stage 3 output)
    tier_1_stocks,    \* _categorize_and_rank: tier_1_stocks
    tier_2_stocks,    \* _categorize_and_rank: tier_2_stocks
    tier,             \* _categorize_and_rank: tier
    top_stocks,       \* _create_result: stocks
    trades,           \* _create_result: trades
    results,          \* what the finished scans returned, oldest first
    status,           \* per watchlist position: how far that symbol got
    raised,           \* an exception left the scan call
    fetch_calls,      \* _fetch_and_filter: per symbol so far, the calls of the data source
    min_return,       \* scan_sector / scan_watchlist: the min_return argument
    arguments,        \* the min_return arguments of the scans so far, oldest first
    call,             \* a function called on its own: its name and arguments
    outcome,          \* what that call returned: <<value>>, <<>> while it runs
    stored,           \* Cache: key -> what the last set(key, .) stored, and when
    disk,             \* Cache: file name -> the blocks of the file, as written
    getter,           \* Cache.get running beside a set: where it is, what it read
    setter,           \* Cache.set running beside a get: where it is
    watchlist,        \* WatchlistManager.watchlist: symbol -> WatchlistStock
    monitored_trades, \* LiveMonitor.monitored_trades
    checked           \* LiveMonitor: the check_positions calls so far, and the time of the last

\* the variables of a scan
scan_vars == <<watchlist_file, cache, now, pc, idx, symbols, candidates,
               scored_stocks, estimated_stocks, tier_1_stocks, tier_2_stocks,
               tier, top_stocks, trades, results, status, raised,
               fetch_calls, min_return, arguments>>

\* the variables no scan touches
\* the variables of the cache calls
cache_vars == <<stored, disk, getter, setter>>

\* the variables of the WatchlistManager
watch_vars == <<watchlist>>

\* the variables of the LiveMonitor
monitor_vars == <<monitored_trades, checked>>

aside == <<call, outcome, cache_vars, watch_vars, monitor_vars>>

vars == <<scan_vars, aside>>

----------------------------------------------------------------------------
(* config/settings.py *)

CAPITAL_PER_TRADE == 1000
MAX_LOSS_PERCENT == 10
\* MIN_RISK_REWARD_RATIO = 1.5, as the fraction 3/2
MIN_RISK_REWARD_NUM == 3
MIN_RISK_REWARD_DEN == 2
MIN_PRICE == 5
MAX_PRICE == 500
MIN_VOLUME == 500000
MIN_MARKET_CAP == 500000000
MIN_VOLATILITY == 3
\* the scoring weights 0.25, 0.20, 0.20, 0.20, 0.15, in hundredths
MACD_WEIGHT == 25
RSI_WEIGHT == 20
VOLUME_WEIGHT == 20
BREAKOUT_WEIGHT == 20
MOMENTUM_WEIGHT == 15
TIER_1_MIN_RETURN == 15
TIER_1_MIN_CONFIDENCE == 75
TIER_2_MIN_RETURN == 8
TIER_2_MIN_CONFIDENCE == 60
CACHE_DURATION_HOURS == 4

----------------------------------------------------------------------------
(* Bounds of the model *)

\* longest watchlist drawn from the three Tier-1 tickers (6 of them overflow the top 5)
MaxTop == 6
\* longest watchlist drawn from the other ticker groups
MaxLen == 3
\* scans run one after the other on the same watchlist and cache
MaxScans == 2
\* longest list of support levels passed to calculate_adjusted_stop_loss
MaxSupports == 2

----------------------------------------------------------------------------
(* Numbers *)

Dollars(n) == n * 100

\* float('nan') / None of a numeric column
NaN == 0 - 1
IsNaN(x) == x = NaN

Max(a, b) == IF a >= b THEN a ELSE b

\* r < n for a ratio r = num/den with den > 0
RatioBelow(r, n) == r.num < n * r.den

RECURSIVE SeqMaxOf(_)
SeqMaxOf(s) == IF Len(s) = 1 THEN s[1] ELSE Max(s[1], SeqMaxOf(Tail(s)))

Reverse(s) == [i \in 1..Len(s) |-> s[Len(s) + 1 - i]]

----------------------------------------------------------------------------
(* The market: what the data source returns for each ticker.  It is frozen  *)
(* for the whole behaviour (the same fetch always returns the same data).   *)
(*                                                                         *)
(* A price history is described by what the code reads from it: its length *)
(* (bars), the last Close, the last ATR and SMA_50 the indicator pass would *)
(* compute, the five lowest Lows of the trailing 20 bars (low_points), and  *)
(* what calculate_overall_score / estimate_return_potential compute from    *)
(* the bars (overall_score, estimated_return, confidence, days_to_target).  *)
(* defect names the stage whose code raises on this payload ("none": none). *)
(***************************************************************************)

BaseHistory ==
    [bars |-> 60, close |-> Dollars(100), atr |-> Dollars(5),
     sma_50 |-> Dollars(90), low_points |-> <<Dollars(80), Dollars(85)>>,
     overall_score |-> 70, estimated_return |-> 16, confidence |-> 80,
     days_to_target |-> 7]

BasePayload ==
    [symbol |-> <<>>, fetched |-> TRUE, defect |-> "none",
     current_price |-> Dollars(100), volume |-> 1000000,
     market_cap |-> 1000000000, history |-> BaseHistory]

\* a ticker that differs from the base one in its analysis only
Analysed(sym, score, ret, conf, lows) ==
    [BasePayload EXCEPT !.symbol = sym,
        !.history = [BaseHistory EXCEPT !.overall_score = score,
                                        !.estimated_return = ret,
                                        !.confidence = conf,
                                        !.low_points = lows]]

\* a ticker whose payload makes one stage raise
Defective(sym, stage, score) ==
    [BasePayload EXCEPT !.symbol = sym, !.defect = stage,
        !.history = [BaseHistory EXCEPT !.overall_score = score]]

\* a ticker that differs from the base one in its quote
Quoted(sym, price, volume, cap) ==
    [BasePayload EXCEPT !.symbol = sym, !.current_price = price,
        !.volume = volume, !.market_cap = cap,
        !.history = [BaseHistory EXCEPT !.close = price,
                                        !.atr = price \div 20,
                                        !.sma_50 = price,
                                        !.low_points = <<>>]]

\* a ticker that differs from the base one in its bars
Charted(sym, bars, close, atr, sma) ==
    [BasePayload EXCEPT !.symbol = sym,
        !.history = [BaseHistory EXCEPT !.bars = bars, !.close = close,
                                        !.atr = atr, !.sma_50 = sma]]

HA == <<"H", "A">>
HB == <<"H", "B">>
HC == <<"H", "C">>
MA == <<"M", "A">>
MB == <<"M", "B">>
MC == <<"M", "C">>
NA == <<"N", "A">>
NB == <<"N", "B">>
NC == <<"N", "C">>
F1 == <<"F", "1">>
F2 == <<"F", "2">>
F3 == <<"F", "3">>
F4 == <<"F", "4">>
PL == <<"P", "L">>
PM == <<"P", "M">>
PX == <<"P", "X">>
PH == <<"P", "H">>
VL == <<"V", "L">>
VM == <<"V", "M">>
CL == <<"C", "L">>
CM == <<"C", "M">>
AL == <<"A", "L">>
AM == <<"A", "M">>
AN == <<"A", "N">>
BS == <<"B", "S">>
CZ == <<"C", "Z">>
SA == <<"S", "A">>
SE == <<"S", "E">>
SN == <<"S", "N">>
ND == <<"N", "/", "D">>

Tickers == {HA, HB, HC, MA, MB, MC, NA, NB, NC, F1, F2, F3, F4,
            PL, PM, PX, PH, VL, VM, CL, CM, AL, AM, AN, BS, CZ, SA, SE, SN, ND}

Market(sym) ==
    CASE sym = HA -> Analysed(sym, 70, 16, 80, <<Dollars(80), Dollars(85)>>)
      [] sym = HB -> Analysed(sym, 85, 16, 80, <<Dollars(90), Dollars(98)>>)
      [] sym = HC -> Analysed(sym, 70, 15, 75, <<>>)
      [] sym = MA -> Analysed(sym, 90, 9, 65, <<>>)
      [] sym = MB -> Analysed(sym, 60, 14, 60, <<Dollars(95)>>)
      [] sym = MC -> Analysed(sym, 60, 8, 60, <<Dollars(80)>>)
      [] sym = NA -> Analysed(sym, 95, 15, 74, <<>>)
      [] sym = NB -> Analysed(sym, 95, 7, 90, <<>>)
      [] sym = NC -> Analysed(sym, 95, 14, 59, <<>>)
      [] sym = F1 -> Defective(sym, "stage1", 99)
      [] sym = F2 -> Defective(sym, "stage2", 99)
      [] sym = F3 -> Defective(sym, "stage3", 99)
      [] sym = F4 -> Defective(sym, "trade", 99)
      [] sym = PL -> Quoted(sym, Dollars(5) - 1, 1000000, 1000000000)
      [] sym = PM -> Quoted(sym, Dollars(5), 1000000, 1000000000)
      [] sym = PX -> Quoted(sym, Dollars(500), 1000000, 1000000000)
      [] sym = PH -> Quoted(sym, Dollars(500) + 1, 1000000, 1000000000)
      [] sym = VL -> Quoted(sym, Dollars(100), 499999, 1000000000)
      [] sym = VM -> Quoted(sym, Dollars(100), 500000, 1000000000)
      [] sym = CL -> Quoted(sym, Dollars(100), 1000000, 499999999)
      [] sym = CM -> Quoted(sym, Dollars(100), 1000000, 500000000)
      [] sym = AL -> Charted(sym, 60, Dollars(100), Dollars(3) - 1, Dollars(90))
      [] sym = AM -> Charted(sym, 60, Dollars(100), Dollars(3), Dollars(90))
      [] sym = AN -> Charted(sym, 60, Dollars(100), NaN, Dollars(90))
      [] sym = BS -> Charted(sym, 49, Dollars(100), Dollars(5), NaN)
      [] sym = CZ -> Charted(sym, 60, 0, Dollars(5), Dollars(90))
      [] sym = SA -> Charted(sym, 60, Dollars(100), Dollars(5), Dollars(100) + 1)
      [] sym = SE -> Charted(sym, 60, Dollars(100), Dollars(5), Dollars(100))
      [] sym = SN -> Charted(sym, 60, Dollars(100), Dollars(5), NaN)
      [] OTHER -> [BasePayload EXCEPT !.symbol = sym, !.fetched = FALSE]

\* the ticker groups watchlists are drawn from
TopGroup == {HB, HC}
Groups == {{HA, HB, MA}, {HA, HC, MA}, {MA, MB, MC}, {MB, MC, NA}, {HA, NB, NC},
           {HA, F1, F2}, {HA, F3, F4},
           {PL, PM, ND}, {PX, PH, VL}, {VM, CL, CM}, {AL, AM, AN},
           {BS, CZ, SA}, {SE, SN, HA}}

\* longer watchlists that mix the groups
Mixed == {<<HA, HB, HA, MA>>, <<HA, MA, HA, MA, HC, MA>>,
          <<MA, HA, MB, HC, MC>>, <<MB, NA, MC, HA, MA, NC>>,
          <<HA, F4, HC, HB, F2, HB, HA, F4>>, <<HA, BS, HA, PH, HC, ND, SA>>,
          <<MA, F1, MB, F3, MC, F4>>, <<HC, F4, HB, F1, MA>>}

Lists(group, n) == UNION {[1..k -> group] : k \in 0..n}

Watchlists ==
    Lists(TopGroup, MaxTop) \cup UNION {Lists(g, MaxLen) : g \in Groups} \cup Mixed

----------------------------------------------------------------------------
(* config/sectors.py, config/api_config.py *)

\* load_watchlist: the symbols of the file; a missing file gives []
load_watchlist(file) == IF file.state = "ok" THEN file.content ELSE <<>>

\* load_watchlist catches FileNotFoundError only: any other I/O error leaves it
LoadRaises(file) == file.state = "unreadable"

\* DataFetcher.get_stock_data: <<payload>>, or <<>> for None
get_stock_data(sym) ==
    IF Market(sym).fetched THEN <<Market(sym)>> ELSE <<>>

----------------------------------------------------------------------------
(* utils/cache.py *)

\* f"stock_{symbol}"
StockKey(sym) == <<"s", "t", "o", "c", "k", "_">> \o sym

\* Cache._get_cache_file: the key with / and \ replaced by _
GetCacheFile(key) ==
    [i \in 1..Len(key) |-> IF key[i] \in {"/", "\\"} THEN "_" ELSE key[i]]

\* faulty variant of Expired: an entry exactly as old as the duration is expired
ExpiredAtDuration(entry, t) == t - entry.timestamp >= CACHE_DURATION_HOURS

Expired(entry, t) == t - entry.timestamp > CACHE_DURATION_HOURS

\* faulty variant of CacheGet: returns the stored dictionary, not its 'value';
\* building the Stock from it raises
CacheGetEntry(c, key, t) ==
    LET file == GetCacheFile(key) IN
    IF file \notin DOMAIN c THEN <<>>
    ELSE IF Expired(c[file], t) THEN <<>>
    ELSE <<[c[file].value EXCEPT !.defect = "stage1"]>>

\* Cache.get, what it returns: <<value>>, or <<>> for None
CacheGet(c, key, t) ==
    LET file == GetCacheFile(key) IN
    IF file \notin DOMAIN c THEN <<>>
    ELSE IF Expired(c[file], t) THEN <<>>
    ELSE <<c[file].value>>

\* Cache.get, what it leaves on disk: an expired entry is removed
CacheAfterGet(c, key, t) ==
    LET file == GetCacheFile(key) IN
    IF file \in DOMAIN c /\ Expired(c[file], t)
    THEN [f \in DOMAIN c \ {file} |-> c[f]]
    ELSE c

\* Cache.set
CacheSet(c, key, value, t) ==
    LET file == GetCacheFile(key) IN
    [f \in DOMAIN c \cup {file} |->
        IF f = file THEN [timestamp |-> t, value |-> value] ELSE c[f]]

----------------------------------------------------------------------------
(* models/stock.py, core/technical_analysis.py *)

\* Stock(...) as _fetch_and_filter builds it; pos is the loop iteration that
\* built the object (its identity), the analysis fields start as None
MakeStock(data, pos) ==
    [symbol |-> data.symbol, current_price |-> data.current_price,
     market_cap |-> data.market_cap, volume |-> data.volume,
     history |-> data.history, defect |-> data.defect, pos |-> pos,
     overall_score |-> NaN, estimated_return |-> NaN, confidence |-> NaN,
     days_to_target |-> NaN]

\* faulty variant of passes_basic_filters: a price of exactly min_price fails
fails_at_min_price(stock, min_price, max_price, min_volume, min_market_cap) ==
    IF stock.current_price <= Dollars(min_price)
       \/ stock.current_price > Dollars(max_price) THEN FALSE
    ELSE IF stock.volume < min_volume THEN FALSE
    ELSE IF stock.market_cap < min_market_cap THEN FALSE
    ELSE TRUE

passes_basic_filters(stock, min_price, max_price, min_volume, min_market_cap) ==
    IF stock.current_price < Dollars(min_price)
       \/ stock.current_price > Dollars(max_price) THEN FALSE
    ELSE IF stock.volume < min_volume THEN FALSE
    ELSE IF stock.market_cap < min_market_cap THEN FALSE
    ELSE TRUE

\* calculate_all_indicators adds the indicator columns from 50 bars on
\* faulty variant of HasIndicators: the columns are added from 20 bars on
HasIndicatorsFromTwenty(hist) == ~(hist.bars < 20)

HasIndicators(hist) == ~(hist.bars < 50)

\* calculate_volatility_percent (period = 20), as the ratio atr * 100 / close
calculate_volatility_percent(hist) ==
    IF ~HasIndicators(hist) \/ hist.bars < 20 THEN [num |-> 0, den |-> 1]
    ELSE IF IsNaN(hist.atr) \/ hist.close = 0 THEN [num |-> 0, den |-> 1]
    ELSE [num |-> hist.atr * 100, den |-> hist.close]

\* the downtrend guard of _fetch_and_filter
InDowntrend(stock) ==
    /\ HasIndicators(stock.history)
    /\ ~IsNaN(stock.history.sma_50)
    /\ stock.current_price < stock.history.sma_50

\* find_support_resistance(df)['support_levels']: the low points below the
\* last close, highest first (low_points is nsmallest(5): lowest first)
support_levels_of(hist) ==
    Reverse(SelectSeq(hist.low_points, LAMBDA l : l < hist.close))

----------------------------------------------------------------------------
(* core/scoring_engine.py, core/return_estimator.py *)

\* calculate_overall_score(stock_data, df)['overall_score']
calculate_overall_score(hist) == hist.overall_score

\* estimate_return_potential: (estimated_return, confidence, days_to_target)
estimate_return_potential(hist) ==
    IF hist.bars < 30 THEN <<0, 0, 10>>
    ELSE <<hist.estimated_return, hist.confidence, hist.days_to_target>>

----------------------------------------------------------------------------
(* core/risk_calculator.py *)

\* faulty variant of calculate_stop_loss: twice the allowed loss
stop_loss_doubled(entry_price, max_loss_percent) == (entry_price * (100 - 2 * max_loss_percent)) \div 100

calculate_stop_loss(entry_price, max_loss_percent) ==
    (entry_price * (100 - max_loss_percent)) \div 100

\* faulty variant of calculate_target_price: half the estimated return
target_price_at_half_return(entry_price, target_return_percent) == (entry_price * (200 + target_return_percent)) \div 200

calculate_target_price(entry_price, target_return_percent) ==
    (entry_price * (100 + target_return_percent)) \div 100

\* faulty variant of calculate_position_size: the share count rounded up
position_size_rounded_up(entry_price, capital) ==
    IF entry_price <= 0 THEN <<0, 0>>
    ELSE LET shares == (Dollars(capital) + entry_price - 1) \div entry_price
         IN  <<shares, shares * entry_price>>

\* (shares, position_value); capital is in dollars
calculate_position_size(entry_price, capital) ==
    IF entry_price <= 0 THEN <<0, 0>>
    ELSE LET shares == Dollars(capital) \div entry_price
         IN  <<shares, shares * entry_price>>

\* the ratio potential_gain / potential_loss, 0.0 when there is no loss
calculate_risk_reward(entry_price, target_price, stop_price) ==
    LET potential_gain == target_price - entry_price
        potential_loss == entry_price - stop_price
    IN  IF potential_loss <= 0 THEN [num |-> 0, den |-> 1]
        ELSE [num |-> potential_gain, den |-> potential_loss]

\* (target_profit, max_loss)
calculate_profit_loss(entry_price, target_price, stop_price, shares) ==
    <<(target_price - entry_price) * shares, (entry_price - stop_price) * shares>>

\* validate_trade_risk(...)[0]
validate_trade_risk(entry_price, target_price, stop_price) ==
    LET rr_ratio == calculate_risk_reward(entry_price, target_price, stop_price)
    IN  IF rr_ratio.num * MIN_RISK_REWARD_DEN < MIN_RISK_REWARD_NUM * rr_ratio.den
        THEN FALSE
        \* stop_loss_pct > MAX_LOSS_PERCENT * 1.2
        ELSE IF (entry_price - stop_price) * 1000 > MAX_LOSS_PERCENT * 12 * entry_price
        THEN FALSE
        ELSE TRUE

\* faulty variant of calculate_adjusted_stop_loss: a level at the entry price
\* counts as a support below it
adjusted_stop_at_entry(entry_price, support_levels, max_loss_percent) ==
    LET default_stop == calculate_stop_loss(entry_price, max_loss_percent)
        valid_supports == SelectSeq(support_levels, LAMBDA l : l <= entry_price)
    IN  IF support_levels = <<>> THEN default_stop
        ELSE IF valid_supports = <<>> THEN default_stop
        ELSE LET adjusted_stop == (SeqMaxOf(valid_supports) * 99) \div 100
             IN  IF adjusted_stop < default_stop THEN default_stop
                 ELSE adjusted_stop

calculate_adjusted_stop_loss(entry_price, support_levels, max_loss_percent) ==
    LET default_stop == calculate_stop_loss(entry_price, max_loss_percent)
        valid_supports == SelectSeq(support_levels, LAMBDA l : l < entry_price)
    IN  IF support_levels = <<>> THEN default_stop
        ELSE IF valid_supports = <<>> THEN default_stop
        ELSE LET adjusted_stop == (SeqMaxOf(valid_supports) * 99) \div 100
             IN  IF adjusted_stop < default_stop THEN default_stop
                 ELSE adjusted_stop

----------------------------------------------------------------------------
(* core/screener.py: the pure parts *)

\* faulty variant of Tier2Filter: the upper return limit taken inclusive
Tier2FilterInclusive(stocks) ==
    SelectSeq(stocks, LAMBDA x : /\ TIER_2_MIN_RETURN <= x.estimated_return
                                 /\ x.estimated_return <= TIER_1_MIN_RETURN
                                 /\ x.confidence >= TIER_2_MIN_CONFIDENCE)

\* the tier lists of _categorize_and_rank, before sorting
\* faulty variant of Tier1Filter: the min_return argument as the return threshold
Tier1FilterByArgument(stocks) ==
    SelectSeq(stocks, LAMBDA x : /\ x.estimated_return >= min_return
                                 /\ x.confidence >= TIER_1_MIN_CONFIDENCE)

Tier1Filter(stocks) ==
    SelectSeq(stocks, LAMBDA x : /\ x.estimated_return >= TIER_1_MIN_RETURN
                                 /\ x.confidence >= TIER_1_MIN_CONFIDENCE)

Tier2Filter(stocks) ==
    SelectSeq(stocks, LAMBDA x : /\ TIER_2_MIN_RETURN <= x.estimated_return
                                 /\ x.estimated_return < TIER_1_MIN_RETURN
                                 /\ x.confidence >= TIER_2_MIN_CONFIDENCE)

\* faulty variant of InsertByScore: an unstable sort, equal scores come out reversed
InsertBeforeEqual(x, sorted) ==
    LET n == Cardinality({i \in 1..Len(sorted) :
                            sorted[i].overall_score > x.overall_score})
    IN  SubSeq(sorted, 1, n) \o <<x>> \o SubSeq(sorted, n + 1, Len(sorted))

\* list.sort(key=overall_score, reverse=True) is stable: an element goes
\* behind every element whose score is at least its own
InsertByScore(x, sorted) ==
    LET n == Cardinality({i \in 1..Len(sorted) :
                            sorted[i].overall_score >= x.overall_score})
    IN  SubSeq(sorted, 1, n) \o <<x>> \o SubSeq(sorted, n + 1, Len(sorted))

RECURSIVE SortByScore(_)
SortByScore(stocks) ==
    IF stocks = <<>> THEN <<>>
    ELSE InsertByScore(stocks[Len(stocks)],
                       SortByScore(SubSeq(stocks, 1, Len(stocks) - 1)))

\* stocks[:5]
\* faulty variant of FirstFive: [:6]
FirstSix(stocks) == SubSeq(stocks, 1, IF Len(stocks) < 6 THEN Len(stocks) ELSE 6)

FirstFive(stocks) == SubSeq(stocks, 1, IF Len(stocks) < 5 THEN Len(stocks) ELSE 5)

\* faulty variant of ChooseTop: a tier needs more than 3 members
ChooseTopStrict(t1, t2) ==
    IF Len(t1) > 3 THEN FirstFive(t1)
    ELSE IF Len(t2) > 3 THEN FirstFive(t2)
    ELSE <<>>

\* faulty variant of ChooseTier: two members are enough for a tier
ChooseTierOfTwo(t1, t2) ==
    IF Len(t1) >= 2 THEN 1 ELSE IF Len(t2) >= 2 THEN 2 ELSE 3

\* the tier decision of _categorize_and_rank
ChooseTier(t1, t2) ==
    IF Len(t1) >= 3 THEN 1 ELSE IF Len(t2) >= 3 THEN 2 ELSE 3

ChooseTop(t1, t2) ==
    IF Len(t1) >= 3 THEN FirstFive(t1)
    ELSE IF Len(t2) >= 3 THEN FirstFive(t2)
    ELSE <<>>

\* _create_trade_from_stock: <<trade>>, or <<>> for None
create_trade_from_stock(stock) ==
    IF stock.defect = "trade" THEN <<>>      \* except Exception: return None
    ELSE
    LET entry_price == stock.current_price
        target_price == calculate_target_price(entry_price, stock.estimated_return)
        default_stop == calculate_stop_loss(entry_price, MAX_LOSS_PERCENT)
        support_levels == support_levels_of(stock.history)
        stop_price ==
            IF support_levels # <<>>
            THEN Max(default_stop,
                     calculate_adjusted_stop_loss(entry_price, support_levels,
                                                  MAX_LOSS_PERCENT))
            ELSE default_stop
        position == calculate_position_size(entry_price, CAPITAL_PER_TRADE)
        shares == position[1]
        pnl == calculate_profit_loss(entry_price, target_price, stop_price, shares)
    IN  IF shares = 0 THEN <<>>
        ELSE <<[symbol |-> stock.symbol, pos |-> stock.pos,
                entry_price |-> entry_price, target_price |-> target_price,
                stop_price |-> stop_price,
                estimated_return |-> stock.estimated_return,
                confidence |-> stock.confidence,
                days_to_target |-> stock.days_to_target,
                score |-> stock.overall_score,
                shares |-> shares, position_value |-> position[2],
                target_profit |-> pnl[1], max_loss |-> pnl[2],
                risk_reward_ratio |->
                    calculate_risk_reward(entry_price, target_price, stop_price),
                support_levels |-> SubSeq(support_levels, 1,
                    IF Len(support_levels) < 3 THEN Len(support_levels) ELSE 3)]>>

\* the dictionary _create_result returns (without sector, scan_time, timestamp)
MakeResult(t, trs) ==
    [tier |-> t,
     mode |-> IF t = 1 THEN "AGGRESSIVE OPPORTUNITIES"
              ELSE IF t = 2 THEN "MODERATE OPPORTUNITIES"
              ELSE "WEAK MARKET CONDITIONS",
     recommendation |->
         IF t = 1 THEN [text |-> "TRADE NOW", count |-> Len(trs)]
         ELSE IF t = 2 THEN [text |-> "CONSIDER SMALLER POSITIONS", count |-> Len(trs)]
         ELSE [text |-> "HOLD CASH", count |-> 0],
     risk_level |-> IF t = 1 THEN "HIGH" ELSE IF t = 2 THEN "MEDIUM" ELSE "LOW",
     trades |-> trs]

\* _fetch_and_filter, one symbol after its payload is there: TRUE when the
\* Stock is appended, FALSE when a continue (a filter, or the except) skips it
Stage1Keeps(stock) ==
    IF stock.defect = "stage1" THEN FALSE
    ELSE IF ~passes_basic_filters(stock, MIN_PRICE, MAX_PRICE, MIN_VOLUME,
                                  MIN_MARKET_CAP) THEN FALSE
    ELSE IF RatioBelow(calculate_volatility_percent(stock.history),
                       MIN_VOLATILITY) THEN FALSE
    ELSE IF InDowntrend(stock) THEN FALSE
    ELSE TRUE

\* faulty variant of Stage2Keeps: the stock is appended although scoring raised
Stage2KeepsAlways(stock) == TRUE

\* faulty variant of Keep: the stock is appended whatever the stage decided
KeepAlways(list, stock, ok) == Append(list, stock)

\* _analyze_and_score / _estimate_returns, one stock: FALSE when the except
\* skips it
Stage2Keeps(stock) == stock.defect # "stage2"
Stage3Keeps(stock) == stock.defect # "stage3"

\* the end of a loop body: append, or continue without appending
Keep(list, stock, ok) == IF ok THEN Append(list, stock) ELSE list

Positions(list) == {list[i].pos : i \in 1..Len(list)}

----------------------------------------------------------------------------
(* The state machine *)

\* no function is being called on its own
NoCall == [fn |-> "none"]

\* no Cache call is running beside another and nothing was set
Idle == [pc |-> "idle"]
NoCacheCalls ==
    /\ stored = <<>>
    /\ disk = <<>>
    /\ getter = Idle
    /\ setter = Idle

\* no WatchlistManager was made
NoWatching == watchlist = <<>>

\* no LiveMonitor was made
NoMonitoring ==
    /\ monitored_trades = <<>>
    /\ checked = [calls |-> 0, force_exit |-> FALSE]

Init ==
    /\ watchlist_file \in
         {[state |-> "ok", content |-> w] : w \in Watchlists}
         \cup {[state |-> st, content |-> <<>>] : st \in {"missing", "unreadable"}}
    /\ cache = <<>>
    /\ now = 0
    /\ pc = "idle"
    /\ idx = 1
    /\ symbols = <<>>
    /\ candidates = <<>>
    /\ scored_stocks = <<>>
    /\ estimated_stocks = <<>>
    /\ tier_1_stocks = <<>>
    /\ tier_2_stocks = <<>>
    /\ tier = 3
    /\ top_stocks = <<>>
    /\ trades = <<>>
    /\ results = <<>>
    /\ status = <<>>
    /\ raised = FALSE
    /\ fetch_calls = <<>>
    /\ min_return = TIER_1_MIN_RETURN
    /\ arguments = <<>>
    /\ call = NoCall
    /\ outcome = <<>>
    /\ NoCacheCalls
    /\ NoWatching
    /\ NoMonitoring

\* the values callers pass as min_return: the default, and a stricter one
MinReturns == {TIER_1_MIN_RETURN, 20}

\* return self._create_result([], 3, ...)
ReturnEmpty ==
    /\ tier' = 3
    /\ top_stocks' = <<>>
    /\ trades' = <<>>
    /\ results' = Append(results, MakeResult(3, <<>>))
    /\ pc' = "done"

\* scan_sector / scan_watchlist up to the call of _scan_symbols
BeginScan(argument) ==
    /\ pc = "idle"
    /\ IF LoadRaises(watchlist_file)
       THEN /\ raised' = TRUE
            /\ pc' = "failed"
            /\ UNCHANGED <<symbols, status, tier, top_stocks, trades, results>>
       ELSE /\ symbols' = load_watchlist(watchlist_file)
            /\ status' = [i \in 1..Len(symbols') |-> "Pending"]
            /\ raised' = FALSE
            /\ IF symbols' = <<>>
               THEN ReturnEmpty
               ELSE /\ pc' = "stage1"
                    /\ UNCHANGED <<tier, top_stocks, trades, results>>
    /\ idx' = 1
    /\ fetch_calls' = <<>>
    /\ min_return' = argument
    /\ arguments' = Append(arguments, argument)
    /\ UNCHANGED <<aside, watchlist_file, cache, now, candidates, scored_stocks,
                   estimated_stocks, tier_1_stocks, tier_2_stocks>>

\* the calls that leave min_return at its default
ScanSector == BeginScan(TIER_1_MIN_RETURN)

ScanWatchlist == BeginScan(TIER_1_MIN_RETURN)

\* the calls that pass a min_return
ScanSectorWith == \E argument \in MinReturns : BeginScan(argument)

ScanWatchlistWith == \E argument \in MinReturns : BeginScan(argument)

\* _fetch_and_filter: one iteration of the loop
Stage1Step ==
    /\ pc = "stage1"
    /\ idx <= Len(symbols)
    /\ LET symbol == symbols[idx]
           key == StockKey(symbol)
           cached == CacheGet(cache, key, now)
           after_get == CacheAfterGet(cache, key, now)
           stock_data == IF cached # <<>> THEN cached ELSE get_stock_data(symbol)
           ok == IF stock_data = <<>> THEN FALSE
                 ELSE Stage1Keeps(MakeStock(stock_data[1], idx))
       IN  /\ cache' = IF cached = <<>> /\ stock_data # <<>>
                       THEN CacheSet(after_get, key, stock_data[1], now)
                       ELSE after_get
           /\ candidates' = IF stock_data = <<>> THEN candidates
                            ELSE Keep(candidates, MakeStock(stock_data[1], idx), ok)
           /\ status' = [status EXCEPT ![idx] = IF ok THEN "Filtered" ELSE "Rejected"]
           /\ fetch_calls' = Append(fetch_calls, IF cached # <<>> THEN 0 ELSE 1)
    /\ idx' = idx + 1
    /\ UNCHANGED <<aside, watchlist_file, now, pc, symbols, scored_stocks,
                   estimated_stocks, tier_1_stocks, tier_2_stocks, tier,
                   top_stocks, trades, results, raised,
                   min_return, arguments>>

\* _scan_symbols after Stage 1
Stage1Done ==
    /\ pc = "stage1"
    /\ idx > Len(symbols)
    /\ IF candidates = <<>>
       THEN ReturnEmpty
       ELSE /\ pc' = "stage2"
            /\ UNCHANGED <<tier, top_stocks, trades, results>>
    /\ idx' = 1
    /\ UNCHANGED <<aside, watchlist_file, cache, now, symbols, candidates,
                   scored_stocks, estimated_stocks, tier_1_stocks,
                   tier_2_stocks, status, raised,
                   fetch_calls, min_return, arguments>>

\* _analyze_and_score: one iteration of the loop
Stage2Step ==
    /\ pc = "stage2"
    /\ idx <= Len(candidates)
    /\ LET stock == candidates[idx]
           ok == Stage2Keeps(stock)
           scored == [stock EXCEPT
                        !.overall_score = calculate_overall_score(stock.history)]
       IN  /\ scored_stocks' = Keep(scored_stocks, scored, ok)
           /\ status' = [status EXCEPT ![stock.pos] =
                                          IF ok THEN "Scored" ELSE "Rejected"]
    /\ idx' = idx + 1
    /\ UNCHANGED <<aside, watchlist_file, cache, now, pc, symbols, candidates,
                   estimated_stocks, tier_1_stocks, tier_2_stocks, tier,
                   top_stocks, trades, results, raised,
                   fetch_calls, min_return, arguments>>

\* _scan_symbols after Stage 2
Stage2Done ==
    /\ pc = "stage2"
    /\ idx > Len(candidates)
    /\ IF scored_stocks = <<>>
       THEN ReturnEmpty
       ELSE /\ pc' = "stage3"
            /\ UNCHANGED <<tier, top_stocks, trades, results>>
    /\ idx' = 1
    /\ UNCHANGED <<aside, watchlist_file, cache, now, symbols, candidates,
                   scored_stocks, estimated_stocks, tier_1_stocks,
                   tier_2_stocks, status, raised,
                   fetch_calls, min_return, arguments>>

\* _estimate_returns: one iteration of the loop
Stage3Step ==
    /\ pc = "stage3"
    /\ idx <= Len(scored_stocks)
    /\ LET stock == scored_stocks[idx]
           ok == Stage3Keeps(stock)
           est == estimate_return_potential(stock.history)
           estimated == [stock EXCEPT !.estimated_return = est[1],
                                      !.confidence = est[2],
                                      !.days_to_target = est[3]]
       IN  /\ estimated_stocks' = Keep(estimated_stocks, estimated, ok)
           /\ status' = [status EXCEPT ![stock.pos] =
                                          IF ok THEN "Estimated" ELSE "Rejected"]
    /\ idx' = idx + 1
    /\ UNCHANGED <<aside, watchlist_file, cache, now, pc, symbols, candidates,
                   scored_stocks, tier_1_stocks, tier_2_stocks, tier,
                   top_stocks, trades, results, raised,
                   fetch_calls, min_return, arguments>>

\* _categorize_and_rank up to the call of _create_result
Categorize ==
    /\ pc = "stage3"
    /\ idx > Len(scored_stocks)
    /\ tier_1_stocks' = SortByScore(Tier1Filter(estimated_stocks))
    /\ tier_2_stocks' = SortByScore(Tier2Filter(estimated_stocks))
    /\ tier' = ChooseTier(tier_1_stocks', tier_2_stocks')
    /\ top_stocks' = ChooseTop(tier_1_stocks', tier_2_stocks')
    /\ status' = [i \in DOMAIN status |->
                    IF i \in Positions(top_stocks') THEN "Classified"
                    ELSE IF status[i] = "Estimated" THEN "Rejected"
                    ELSE status[i]]
    /\ trades' = <<>>
    /\ pc' = "create_result"
    /\ idx' = 1
    /\ UNCHANGED <<aside, watchlist_file, cache, now, symbols, candidates,
                   scored_stocks, estimated_stocks, results, raised,
                   fetch_calls, min_return, arguments>>

\* _create_result: one iteration of the loop over the chosen stocks
CreateTradeStep ==
    /\ pc = "create_result"
    /\ idx <= Len(top_stocks)
    /\ LET stock == top_stocks[idx]
           trade == create_trade_from_stock(stock)
       IN  /\ trades' = trades \o trade
           /\ status' = IF trade = <<>>
                        THEN [status EXCEPT ![stock.pos] = "Rejected"]
                        ELSE status
    /\ idx' = idx + 1
    /\ UNCHANGED <<aside, watchlist_file, cache, now, pc, symbols, candidates,
                   scored_stocks, estimated_stocks, tier_1_stocks,
                   tier_2_stocks, tier, top_stocks, results, raised,
                   fetch_calls, min_return, arguments>>

\* _create_result builds the dictionary, _scan_symbols returns it
ReturnResult ==
    /\ pc = "create_result"
    /\ idx > Len(top_stocks)
    /\ results' = Append(results, MakeResult(tier, trades))
    /\ pc' = "done"
    /\ UNCHANGED <<aside, watchlist_file, cache, now, idx, symbols, candidates,
                   scored_stocks, estimated_stocks, tier_1_stocks,
                   tier_2_stocks, tier, top_stocks, trades, status, raised,
                   fetch_calls, min_return, arguments>>

\* the caller scans the same watchlist again, later: the entries the last scan
\* cached are then at the edge of the cache duration, or past it
Rescan ==
    /\ pc = "done"
    /\ Len(results) < MaxScans
    /\ \E wait \in {CACHE_DURATION_HOURS, CACHE_DURATION_HOURS + 1} :
           now' = now + wait
    /\ pc' = "idle"
    /\ idx' = 1
    /\ symbols' = <<>>
    /\ candidates' = <<>>
    /\ scored_stocks' = <<>>
    /\ estimated_stocks' = <<>>
    /\ tier_1_stocks' = <<>>
    /\ tier_2_stocks' = <<>>
    /\ tier' = 3
    /\ top_stocks' = <<>>
    /\ trades' = <<>>
    /\ status' = <<>>
    /\ fetch_calls' = <<>>
    /\ UNCHANGED <<aside, watchlist_file, cache, results, raised, min_return,
                   arguments>>

Next ==
    \/ ScanSector
    \/ ScanWatchlist
    \/ Stage1Step
    \/ Stage1Done
    \/ Stage2Step
    \/ Stage2Done
    \/ Stage3Step
    \/ Categorize
    \/ CreateTradeStep
    \/ ReturnResult
    \/ Rescan

Spec == Init /\ [][Next]_vars

----------------------------------------------------------------------------
(* Vocabulary of the properties *)

Returned == pc = "done"
LastResult == results[Len(results)]
Categorized == pc \in {"create_result", "done"}

\* the payload the scan works on for the symbol at watchlist position i
DataAt(i) == Market(symbols[i])

InTier1(ret, conf) == ret >= TIER_1_MIN_RETURN /\ conf >= TIER_1_MIN_CONFIDENCE
InTier2(ret, conf) ==
    /\ TIER_2_MIN_RETURN <= ret
    /\ ret < TIER_1_MIN_RETURN
    /\ conf >= TIER_2_MIN_CONFIDENCE

EstimatedSet == {estimated_stocks[i] : i \in 1..Len(estimated_stocks)}

\* positions of the estimated candidates that meet a tier's thresholds
Tier1Set == {x.pos : x \in {y \in EstimatedSet :
                               InTier1(y.estimated_return, y.confidence)}}
Tier2Set == {x.pos : x \in {y \in EstimatedSet :
                               InTier2(y.estimated_return, y.confidence)}}

ScoreAt(p) == (CHOOSE x \in EstimatedSet : x.pos = p).overall_score

\* list holds the best min(5, |set|) members of set, best first, ties in scan order
IsTopFiveOf(list, set) ==
    /\ Len(list) = (IF Cardinality(set) < 5 THEN Cardinality(set) ELSE 5)
    /\ Positions(list) \subseteq set
    /\ \A i, j \in 1..Len(list) :
          i < j => \/ list[i].overall_score > list[j].overall_score
                   \/ /\ list[i].overall_score = list[j].overall_score
                      /\ list[i].pos < list[j].pos
    /\ \A p \in set \ Positions(list) : \A i \in 1..Len(list) :
          \/ list[i].overall_score > ScoreAt(p)
          \/ list[i].overall_score = ScoreAt(p) /\ list[i].pos < p

TradePositions(r) == {r.trades[i].pos : i \in 1..Len(r.trades)}
PosSeq(list) == [i \in 1..Len(list) |-> list[i].pos]

----------------------------------------------------------------------------
(* C1: the classification step returns tier 1 with the first 5 of the       *)
(* score-sorted Tier-1 set when that set has at least 3 members, otherwise  *)
(* tier 2 with the first 5 of the score-sorted Tier-2 set when that set has *)
(* at least 3 members, otherwise tier 3 with an empty list; three           *)
(* candidates with return 16 / confidence 80 plus one with return 9 /       *)
(* confidence 65 give tier 1 with exactly the three qualifying candidates.  *)
C1_TierSelection ==
    /\ Categorized =>
         IF Cardinality(Tier1Set) >= 3
         THEN tier = 1 /\ IsTopFiveOf(top_stocks, Tier1Set)
         ELSE IF Cardinality(Tier2Set) >= 3
         THEN tier = 2 /\ IsTopFiveOf(top_stocks, Tier2Set)
         ELSE tier = 3 /\ top_stocks = <<>>
    /\ Returned => LastResult.tier = tier
    /\ (Returned /\ symbols = <<HA, HB, HA, MA>>) =>
         /\ LastResult.tier = 1
         /\ PosSeq(LastResult.trades) = <<2, 1, 3>>

\* a tier-1 scan returned whose Tier-1 set had more than five members
C1_Witness ==
    /\ Returned
    /\ LastResult.tier = 1
    /\ Cardinality(Tier1Set) > 5
    /\ Len(LastResult.trades) = 5

(* C2: a surviving candidate is in the Tier-1 set iff return >= 15 and      *)
(* confidence >= 75, in the Tier-2 set iff 8 <= return < 15 and confidence  *)
(* >= 60; the sets are disjoint, and a candidate in neither set never       *)
(* appears in the trades of a scan result.                                  *)
C2_TierMembership ==
    /\ Categorized =>
         /\ \A i \in 1..Len(estimated_stocks) :
              LET x == estimated_stocks[i] IN
              /\ x.pos \in Positions(tier_1_stocks)
                    <=> (x.estimated_return >= 15 /\ x.confidence >= 75)
              /\ x.pos \in Positions(tier_2_stocks)
                    <=> (8 <= x.estimated_return /\ x.estimated_return < 15
                         /\ x.confidence >= 60)
         /\ Positions(tier_1_stocks) \cap Positions(tier_2_stocks) = {}
         /\ Positions(tier_1_stocks) \cup Positions(tier_2_stocks)
               \subseteq Positions(estimated_stocks)
    /\ \A k \in 1..Len(results) : \A i \in 1..Len(results[k].trades) :
          LET t == results[k].trades[i] IN
          \/ InTier1(t.estimated_return, t.confidence)
          \/ InTier2(t.estimated_return, t.confidence)

\* a scan returned trades while its estimated candidates held members of both
\* tiers and candidates of neither
C2_Witness ==
    /\ Returned
    /\ LastResult.trades # <<>>
    /\ tier_1_stocks # <<>>
    /\ tier_2_stocks # <<>>
    /\ Positions(estimated_stocks)
          \ (Positions(tier_1_stocks) \cup Positions(tier_2_stocks)) # {}

(* C3: the trades of a scan result are ordered by overall score, highest    *)
(* first, candidates with equal score in the order their symbols were       *)
(* listed in the watchlist; every stage keeps the scan order of the symbols *)
(* it keeps.                                                                *)
InScanOrder(list) == \A i, j \in 1..Len(list) : i < j => list[i].pos < list[j].pos

C3_RankedStable ==
    /\ InScanOrder(candidates)
    /\ InScanOrder(scored_stocks)
    /\ InScanOrder(estimated_stocks)
    /\ \A k \in 1..Len(results) :
          LET t == results[k].trades IN
          \A i, j \in 1..Len(t) :
             i < j => \/ t[i].score > t[j].score
                      \/ t[i].score = t[j].score /\ t[i].pos < t[j].pos

\* a result holds two different tickers of equal score behind a better one
C3_Witness ==
    /\ Returned
    /\ \E i, j, k \in 1..Len(LastResult.trades) :
          LET t == LastResult.trades IN
          /\ i < j /\ j < k
          /\ t[i].score > t[j].score
          /\ t[j].score = t[k].score
          /\ t[j].symbol # t[k].symbol

----------------------------------------------------------------------------
(* The scan as a function of a watchlist on which no stage raises: what the *)
(* results of a scan with failing symbols are compared with.                *)

RECURSIVE Without(_, _, _)
\* list without the entries at the positions in drop (i: the next position)
Without(list, drop, i) ==
    IF i > Len(list) THEN <<>>
    ELSE (IF i \in drop THEN <<>> ELSE <<list[i]>>) \o Without(list, drop, i + 1)

RECURSIVE TradesOf(_)
TradesOf(stocks) ==
    IF stocks = <<>> THEN <<>>
    ELSE create_trade_from_stock(stocks[1]) \o TradesOf(Tail(stocks))

ReferenceScan(list) ==
    LET built == [i \in 1..Len(list) |-> MakeStock(Market(list[i]), i)]
        passed == SelectSeq(built, LAMBDA x : Market(x.symbol).fetched /\ Stage1Keeps(x))
        analysed == [i \in 1..Len(passed) |->
                       LET est == estimate_return_potential(passed[i].history) IN
                       [passed[i] EXCEPT
                          !.overall_score = calculate_overall_score(passed[i].history),
                          !.estimated_return = est[1],
                          !.confidence = est[2],
                          !.days_to_target = est[3]]]
        t1 == SortByScore(Tier1Filter(analysed))
        t2 == SortByScore(Tier2Filter(analysed))
    IN  [tier |-> ChooseTier(t1, t2), top |-> ChooseTop(t1, t2)]

\* a trade without the watchlist position of its stock
Strip(trade) == [f \in DOMAIN trade \ {"pos"} |-> trade[f]]
StripAll(trs) == [i \in 1..Len(trs) |-> Strip(trs[i])]

\* positions whose processing raised in Stage 1, 2 or 3 of the running scan
StageRaisers ==
    {i \in 1..Len(symbols) :
        /\ DataAt(i).fetched
        /\ DataAt(i).defect \in {"stage1", "stage2", "stage3"}}

\* positions whose trade materialization raised
TradeRaisers ==
    {top_stocks[i].pos : i \in {j \in 1..Len(top_stocks) : top_stocks[j].defect = "trade"}}

(* C4, as claimed: if processing one symbol raises in Stage 1, 2, 3 or in    *)
(* trade materialization, only that symbol is dropped: the scan completes   *)
(* and returns the tier and trades it would return had the failing symbol   *)
(* not been in the batch.                                                   *)
C4_AsIfAbsent ==
    Returned =>
       LET ref == ReferenceScan(Without(symbols, StageRaisers \cup TradeRaisers, 1))
       IN  /\ LastResult.tier = ref.tier
           /\ StripAll(LastResult.trades) = StripAll(TradesOf(ref.top))

(* C4, amended: a symbol that raises in Stage 1, 2 or 3 is dropped and the  *)
(* scan returns the tier and trades it would return had that symbol not     *)
(* been in the batch; a chosen candidate whose trade materialization raises *)
(* is dropped from the trades only: the tier stays the one chosen with it   *)
(* counted, the other chosen candidates keep their places and no candidate  *)
(* moves up; in both cases the scan completes without raising.              *)
C4_FailuresContained ==
    /\ (StageRaisers \cup TradeRaisers # {}) => ~raised /\ pc # "failed"
    /\ Returned =>
         LET ref == ReferenceScan(Without(symbols, StageRaisers, 1))
             sound == SelectSeq(ref.top, LAMBDA x : x.defect # "trade")
         IN  /\ LastResult.tier = ref.tier
             /\ StripAll(LastResult.trades) = StripAll(TradesOf(sound))
             /\ Len(ref.top) = Len(top_stocks)

\* a scan returned trades although one symbol raised while it was scored and
\* the materialization of a chosen candidate raised
C4_Witness ==
    /\ Returned
    /\ \E i \in StageRaisers : DataAt(i).defect = "stage2"
    /\ TradeRaisers # {}
    /\ LastResult.trades # <<>>

----------------------------------------------------------------------------
\* the Stage-1 criteria, as the positive conditions on a fetched payload
MeetsStage1Criteria(d) ==
    /\ Dollars(MIN_PRICE) <= d.current_price
    /\ d.current_price <= Dollars(MAX_PRICE)
    /\ d.volume >= MIN_VOLUME
    /\ d.market_cap >= MIN_MARKET_CAP
    /\ ~RatioBelow(calculate_volatility_percent(d.history), MIN_VOLATILITY)
    /\ ~(~IsNaN(d.history.sma_50) /\ d.current_price < d.history.sma_50)

\* the symbol at position i gets through Stages 1 to 3
Survives(i) ==
    /\ DataAt(i).fetched
    /\ DataAt(i).defect \notin {"stage1", "stage2", "stage3"}
    /\ MeetsStage1Criteria(DataAt(i))

Qualifying1 == {i \in 1..Len(symbols) :
                  /\ Survives(i)
                  /\ InTier1(DataAt(i).history.estimated_return,
                             DataAt(i).history.confidence)}
Qualifying2 == {i \in 1..Len(symbols) :
                  /\ Survives(i)
                  /\ InTier2(DataAt(i).history.estimated_return,
                             DataAt(i).history.confidence)}

(* C5: a scan in which no symbol survives (empty or missing watchlist,      *)
(* every fetch empty, every symbol filtered out, or fewer than three        *)
(* qualifying for each tier) returns a well-formed tier-3 result with no    *)
(* trades and never raises.                                                 *)
C5_EmptyScanIsTier3 ==
    /\ watchlist_file.state # "unreadable" => ~raised /\ pc # "failed"
    /\ (Returned /\ Cardinality(Qualifying1) < 3 /\ Cardinality(Qualifying2) < 3) =>
          LastResult = [tier |-> 3, mode |-> "WEAK MARKET CONDITIONS",
                        recommendation |-> [text |-> "HOLD CASH", count |-> 0],
                        risk_level |-> "LOW", trades |-> <<>>]

\* a scan returned tier 3 although symbols were estimated: too few qualified
C5_Witness ==
    /\ Returned
    /\ estimated_stocks # <<>>
    /\ Tier1Set # {}
    /\ Tier2Set # {}
    /\ LastResult.tier = 3
    /\ LastResult.trades = <<>>

(* C6: every scan result has tier 1, 2 or 3 and at most 5 trades; tier 3    *)
(* has no trades, risk level LOW and the hold-cash recommendation; tier 1   *)
(* has risk level HIGH and tier 2 risk level MEDIUM.                        *)
C6_ResultShape ==
    \A k \in 1..Len(results) :
       LET r == results[k] IN
       /\ r.tier \in {1, 2, 3}
       /\ Len(r.trades) <= 5
       /\ r.tier = 3 => /\ r.trades = <<>>
                        /\ r.risk_level = "LOW"
                        /\ r.recommendation.text = "HOLD CASH"
       /\ r.tier = 1 => r.risk_level = "HIGH"
       /\ r.tier = 2 => r.risk_level = "MEDIUM"

\* more than five candidates qualified for tier 1: the result of each of two
\* scans is tier 1, risk level HIGH, with five trades
C6_Witness ==
    /\ Len(results) = 2
    /\ results[1].tier = 1
    /\ Len(results[1].trades) = 5
    /\ Len(tier_1_stocks) > 5
    /\ results[2].risk_level = "HIGH"
    /\ Len(results[2].trades) = 5

----------------------------------------------------------------------------
\* positions Stage 1 has gone through in the running scan
Fetched == IF pc = "stage1" THEN 1..(idx - 1)
           ELSE IF pc \in {"idle", "failed"} THEN {} ELSE 1..Len(symbols)

\* positions of the stocks that appear in any later list or in the result
Downstream ==
    Positions(scored_stocks) \cup Positions(estimated_stocks)
       \cup Positions(top_stocks) \cup Positions(trades)

(* C7: a fetched symbol passes Stage 1 iff MIN_PRICE <= price <= MAX_PRICE, *)
(* volume >= MIN_VOLUME, market cap >= MIN_MARKET_CAP, ATR-derived          *)
(* volatility percent >= MIN_VOLATILITY and price not below the 50-day SMA; *)
(* a symbol failing any of these never reaches scoring, estimation or the   *)
(* result.                                                                  *)
C7_Stage1Filters ==
    \A i \in Fetched :
       (DataAt(i).fetched /\ DataAt(i).defect # "stage1") =>
          /\ i \in Positions(candidates) <=> MeetsStage1Criteria(DataAt(i))
          /\ ~MeetsStage1Criteria(DataAt(i)) => i \notin Downstream

\* Stage 1 kept a symbol priced exactly MIN_PRICE and rejected one a cent below
C7_Witness ==
    /\ pc = "stage2"
    /\ \E i, j \in Fetched :
          /\ DataAt(i).current_price = Dollars(MIN_PRICE)
          /\ i \in Positions(candidates)
          /\ DataAt(j).current_price = Dollars(MIN_PRICE) - 1
          /\ j \notin Positions(candidates)

----------------------------------------------------------------------------
\* the per-symbol state machine: the moves of one symbol within a scan
Forward ==
    {<<"Pending", "Filtered">>, <<"Filtered", "Scored">>,
     <<"Scored", "Estimated">>, <<"Estimated", "Classified">>}

Allowed(a, b) ==
    \/ a = b
    \/ <<a, b>> \in Forward
    \/ a # "Rejected" /\ b = "Rejected"

\* what the state of a symbol says about the lists of the running scan
C8_StateInv ==
    /\ Positions(scored_stocks) \subseteq Positions(candidates)
    /\ Positions(estimated_stocks) \subseteq Positions(scored_stocks)
    /\ Positions(top_stocks) \subseteq Positions(estimated_stocks)
    /\ Positions(trades) \subseteq Positions(top_stocks)
    /\ \A i \in DOMAIN status :
          /\ status[i] = "Pending" => i \notin Positions(candidates)
          /\ status[i] = "Filtered" =>
                i \in Positions(candidates) /\ i \notin Positions(scored_stocks)
          /\ status[i] = "Scored" =>
                i \in Positions(scored_stocks) /\ i \notin Positions(estimated_stocks)
          /\ status[i] = "Estimated" =>
                i \in Positions(estimated_stocks) /\ i \notin Positions(top_stocks)
          /\ status[i] = "Classified" => i \in Positions(top_stocks)
          /\ status[i] = "Rejected" => i \notin Positions(trades)
    \* a rejection does not stop the loop: every symbol before the loop index
    \* has been processed, and after the loop no symbol is left unprocessed
    /\ pc = "stage1" =>
          \A i \in DOMAIN status : (status[i] = "Pending") <=> (i >= idx)
    /\ pc = "stage2" =>
          \A k \in 1..Len(candidates) :
             (status[candidates[k].pos] = "Filtered") <=> (k >= idx)
    /\ pc = "stage3" =>
          \A k \in 1..Len(scored_stocks) :
             (status[scored_stocks[k].pos] = "Scored") <=> (k >= idx)
    /\ Returned =>
          /\ \A i \in DOMAIN status : status[i] \in {"Classified", "Rejected"}
          /\ TradePositions(LastResult) =
                {i \in DOMAIN status : status[i] = "Classified"}

\* the moves of the symbols in one step of a scan
C8_Step ==
    (symbols' = symbols /\ DOMAIN status' = DOMAIN status) =>
       \A i \in DOMAIN status : Allowed(status[i], status'[i])

(* C8: within a scan each symbol moves only forward through Fetched ->      *)
(* Filtered -> Scored -> Estimated -> Classified: none is scored unless it  *)
(* passed Stage 1, estimated unless scored, classified unless estimated; a  *)
(* dropped symbol is terminally Rejected, is never processed by a later     *)
(* stage, never appears in the result, and its rejection does not stop the  *)
(* remaining symbols from being processed.                                  *)
C8_ForwardOnly == [](C8_StateInv) /\ [][C8_Step]_vars

\* a scan returned a trade for a symbol listed after one that Stage 2 dropped
C8_Witness ==
    /\ Returned
    /\ \E i, j \in DOMAIN status :
          /\ i < j
          /\ DataAt(i).defect = "stage2"
          /\ status[i] = "Rejected"
          /\ status[j] = "Classified"
          /\ j \in TradePositions(LastResult)

(* C9: running the pipeline twice on the same frozen inputs, the data       *)
(* coming from the data source or from the cache the first run filled,      *)
(* yields the same tier and the same trade list, field for field.           *)
C9_Idempotent ==
    \A j, k \in 1..Len(results) :
       /\ results[j].tier = results[k].tier
       /\ results[j].trades = results[k].trades

\* the second scan read its data from the cache the first had filled, and
\* returned trades
C9_Witness ==
    /\ Len(results) = 2
    /\ now = CACHE_DURATION_HOURS
    /\ DOMAIN cache # {}
    /\ \A f \in DOMAIN cache : cache[f].timestamp = 0
    /\ results[2].trades # <<>>
    /\ results[2].tier = 2

(* C10: a top-ranked candidate for which validate_trade_risk fails (risk /  *)
(* reward below MIN_RISK_REWARD_RATIO, or stop-loss distance above          *)
(* MAX_LOSS_PERCENT x 1.2 percent of entry) is excluded from the trades of  *)
(* the scan result.                                                         *)
C10_OnlyValidatedTrades ==
    \A k \in 1..Len(results) :
       \A i \in 1..Len(results[k].trades) :
          LET t == results[k].trades[i] IN
          validate_trade_risk(t.entry_price, t.target_price, t.stop_price)

----------------------------------------------------------------------------
(* _create_result called on any list of stocks: the prices the Stage-1      *)
(* filters would not let through are among them.                            *)

\* entry prices, in cents: none, negative, a cent, whole shares, one share
\* exactly, a cent too dear for one share, far too dear
DirectPrices ==
    {0, 0 - Dollars(1), 1, Dollars(100), Dollars(333), Dollars(CAPITAL_PER_TRADE),
     Dollars(CAPITAL_PER_TRADE) + 1, Dollars(2500)}

\* an estimated Stock with that price
DirectStock(price, pos) ==
    [MakeStock(Quoted(<<"Q">>, price, MIN_VOLUME, MIN_MARKET_CAP), pos)
        EXCEPT !.overall_score = 70, !.estimated_return = 16,
               !.confidence = 80, !.days_to_target = 7]

\* the state at the call _create_result(stocks, tier, sector_name)
ResultInit ==
    /\ top_stocks \in {[i \in 1..Len(ps) |-> DirectStock(ps[i], i)] :
                          ps \in Lists(DirectPrices, MaxLen)}
    /\ tier \in {1, 2}
    /\ symbols = [i \in 1..Len(top_stocks) |-> top_stocks[i].symbol]
    /\ status = [i \in 1..Len(top_stocks) |-> "Classified"]
    /\ pc = "create_result"
    /\ idx = 1
    /\ trades = <<>>
    /\ watchlist_file = [state |-> "missing", content |-> <<>>]
    /\ cache = <<>>
    /\ now = 0
    /\ candidates = <<>>
    /\ scored_stocks = <<>>
    /\ estimated_stocks = <<>>
    /\ tier_1_stocks = <<>>
    /\ tier_2_stocks = <<>>
    /\ results = <<>>
    /\ raised = FALSE
    /\ fetch_calls = <<>>
    /\ min_return = TIER_1_MIN_RETURN
    /\ arguments = <<>>
    /\ call = NoCall
    /\ outcome = <<>>
    /\ NoCacheCalls
    /\ NoWatching
    /\ NoMonitoring

\* scans, and calls of _create_result on its own
ResultSpec == (Init \/ ResultInit) /\ [][Next]_vars

\* shares = floor(capital / entry_price), at least 1, and the value of the position
SizedRight(t) ==
    /\ t.entry_price > 0
    /\ t.shares >= 1
    /\ t.shares * t.entry_price <= Dollars(CAPITAL_PER_TRADE)
    /\ (t.shares + 1) * t.entry_price > Dollars(CAPITAL_PER_TRADE)
    /\ t.position_value = t.shares * t.entry_price

\* the chosen stocks for which not one share can be bought
Unaffordable ==
    {top_stocks[i].pos : i \in {j \in 1..Len(top_stocks) :
        \/ top_stocks[j].current_price <= 0
        \/ top_stocks[j].current_price > Dollars(CAPITAL_PER_TRADE)}}

(* C11: every trade a scan emits has shares = floor(CAPITAL_PER_TRADE /      *)
(* entry_price) >= 1 and position_value = shares x entry_price; a chosen    *)
(* candidate whose share count is 0 (entry_price <= 0 included) is dropped  *)
(* from the result although the tier was chosen with it counted.            *)
C11_PositionSize ==
    /\ \A i \in 1..Len(trades) : SizedRight(trades[i])
    /\ \A k \in 1..Len(results) :
          \A i \in 1..Len(results[k].trades) : SizedRight(results[k].trades[i])
    /\ Returned =>
          /\ TradePositions(LastResult) =
                (Positions(top_stocks) \ Unaffordable) \ TradeRaisers
          /\ LastResult.tier = tier

\* a tier-1 or tier-2 result lacks the trades of a stock priced 0 and of one a
\* cent too dear for a single share, and has the trade of one share at 1000.00
C11_Witness ==
    /\ Returned
    /\ LastResult.tier \in {1, 2}
    /\ \E i, j, k \in 1..Len(top_stocks) :
          /\ top_stocks[i].current_price = 0
          /\ top_stocks[j].current_price = Dollars(CAPITAL_PER_TRADE) + 1
          /\ top_stocks[k].current_price = Dollars(CAPITAL_PER_TRADE)
    /\ Len(LastResult.trades) = 1
    /\ LastResult.trades[1].shares = 1

----------------------------------------------------------------------------
(* Functions called on their own *)

\* no scan is running and none has run
NoScan ==
    /\ watchlist_file = [state |-> "missing", content |-> <<>>]
    /\ cache = <<>>
    /\ now = 0
    /\ pc = "idle"
    /\ idx = 1
    /\ symbols = <<>>
    /\ candidates = <<>>
    /\ scored_stocks = <<>>
    /\ estimated_stocks = <<>>
    /\ tier_1_stocks = <<>>
    /\ tier_2_stocks = <<>>
    /\ tier = 3
    /\ top_stocks = <<>>
    /\ trades = <<>>
    /\ results = <<>>
    /\ status = <<>>
    /\ raised = FALSE
    /\ fetch_calls = <<>>
    /\ min_return = TIER_1_MIN_RETURN
    /\ arguments = <<>>

Calling(fn) == call.fn = fn /\ outcome = <<>>
Called(fn) == call.fn = fn /\ outcome # <<>>

\* entry prices and price levels of the calls, whole dollars in cents
StopEntries == {Dollars(50), Dollars(99), Dollars(100), Dollars(200)}
StopLevels ==
    {Dollars(40), Dollars(85), Dollars(90), Dollars(95), Dollars(100), Dollars(120)}
StopPercents == {5, MAX_LOSS_PERCENT, 20}

StopInit ==
    /\ NoScan
    /\ call \in [fn : {"calculate_adjusted_stop_loss"},
                 entry_price : StopEntries,
                 support_levels : Lists(StopLevels, MaxSupports),
                 max_loss_percent : StopPercents]
    /\ outcome = <<>>
    /\ NoCacheCalls
    /\ NoWatching
    /\ NoMonitoring

ReturnAdjustedStop ==
    /\ Calling("calculate_adjusted_stop_loss")
    /\ outcome' = <<calculate_adjusted_stop_loss(call.entry_price,
                                                 call.support_levels,
                                                 call.max_loss_percent)>>
    /\ UNCHANGED <<scan_vars, call, cache_vars, watch_vars, monitor_vars>>

StopNext == ReturnAdjustedStop

StopSpec == StopInit /\ [][StopNext]_vars

\* the levels of the call that lie strictly below its entry price
SupportsBelow ==
    {call.support_levels[i] : i \in 1..Len(call.support_levels)}
       \cap {l \in StopLevels : l < call.entry_price}

(* C12: calculate_adjusted_stop_loss returns the default stop                *)
(* entry x (1 - max_loss_pct/100) when no support level lies strictly below  *)
(* the entry price, otherwise max(default stop, 0.99 x the highest support   *)
(* below entry); its result is never lower than the default stop.            *)
C12_AdjustedStop ==
    Called("calculate_adjusted_stop_loss") =>
       LET default100 == call.entry_price * (100 - call.max_loss_percent)
           highest == CHOOSE h \in SupportsBelow : \A l \in SupportsBelow : l <= h
       IN  /\ 100 * outcome[1] =
                 IF SupportsBelow = {} THEN default100
                 ELSE Max(default100, 99 * highest)
           /\ 100 * outcome[1] >= default100

\* a call with a level at the entry price, one above it and the stop placed
\* under the support below: above the default stop
C12_Witness ==
    /\ Called("calculate_adjusted_stop_loss")
    /\ call.entry_price = Dollars(100)
    /\ call.max_loss_percent = MAX_LOSS_PERCENT
    /\ call.support_levels = <<Dollars(100), Dollars(95)>>
    /\ outcome = <<9405>>

----------------------------------------------------------------------------
(***************************************************************************)
(* core/technical_analysis.py, core/scoring_engine.py on a frame.          *)
(*                                                                         *)
(* A frame df is kept as what the code reads of it: bars = len(df),        *)
(* columns = the indicator columns are there, the series Close, High,      *)
(* Volume, MACD, MACD_signal, RSI, Volume_SMA_20 as the tail the code      *)
(* reads (most recent cell last), the last cell of SMA_20 and SMA_50, and  *)
(* the aggregates over the recent bars: high_max = High.max() of the last  *)
(* 20, high_points / low_points = nlargest(5) / nsmallest(5), macd_range = *)
(* max - min of the last 20 MACD cells.  A score is in points; a           *)
(* percentage the code keeps as a float is a ratio [num, den], den > 0.    *)
(***************************************************************************)

Min(a, b) == IF a < b THEN a ELSE b

\* s.iloc[-k]
Back(s, k) == s[Len(s) + 1 - k]

\* s.tail(k)
TailOf(s, k) == IF Len(s) <= k THEN s ELSE SubSeq(s, Len(s) - k + 1, Len(s))

\* find_support_resistance: the levels on either side of the last close
find_support_resistance(df) ==
    LET current_price == Back(df.Close, 1)
    IN  [resistance |-> df.high_max,
         support_levels |->
             Reverse(SelectSeq(df.low_points,
                               LAMBDA l : ~IsNaN(current_price) /\ l < current_price)),
         resistance_levels |->
             Reverse(SelectSeq(df.high_points,
                               LAMBDA r : ~IsNaN(current_price) /\ r > current_price))]

check_macd_crossover(df) ==
    IF ~df.columns THEN FALSE
    ELSE LET macd == TailOf(df.MACD, 4)
             signal == TailOf(df.MACD_signal, 4)
         IN  IF Len(macd) < 2 THEN FALSE
             ELSE \E i \in 1..(Len(macd) - 1) :
                     /\ ~IsNaN(macd[i]) /\ ~IsNaN(signal[i])
                     /\ ~IsNaN(macd[i + 1]) /\ ~IsNaN(signal[i + 1])
                     /\ macd[i] <= signal[i]
                     /\ macd[i + 1] > signal[i + 1]

is_macd_bullish(df) ==
    IF ~df.columns THEN FALSE
    ELSE LET last_macd == Back(df.MACD, 1)
             last_signal == Back(df.MACD_signal, 1)
         IN  IF IsNaN(last_macd) \/ IsNaN(last_signal) THEN FALSE
             ELSE last_macd > last_signal

\* the cell of MACD_hist k from the end: macd - signal, NaN if either is
MacdHist(df, k) ==
    IF IsNaN(Back(df.MACD, k)) \/ IsNaN(Back(df.MACD_signal, k)) THEN NaN
    ELSE Back(df.MACD, k) - Back(df.MACD_signal, k)

\* is_histogram_expanding (lookback = 3)
is_histogram_expanding(df) ==
    IF ~df.columns THEN FALSE
    ELSE LET n == Min(Len(df.MACD), 3)
         IN  IF n < 2 \/ \E k \in 1..n : IsNaN(MacdHist(df, k)) THEN FALSE
             ELSE MacdHist(df, 1) > MacdHist(df, 2)

\* a float that is not a number, as a ratio: den = 0
NotANumber == [num |-> 0, den |-> 0]

\* calculate_momentum: the change as a ratio num / den of prices, the
\* percentage the code returns is 100 * num / den; 0.0 on a short frame,
\* not a number when one of the two closes is not
calculate_momentum(df, period) ==
    IF df.bars < period + 1 THEN [num |-> 0, den |-> 1]
    ELSE LET current_price == Back(df.Close, 1)
             past_price == Back(df.Close, period + 1)
         IN  IF IsNaN(current_price) \/ IsNaN(past_price) THEN NotANumber
             ELSE [num |-> current_price - past_price, den |-> past_price]

calculate_macd_score(df) ==
    IF ~df.columns THEN 0
    ELSE LET macd_val == Back(df.MACD, 1)
             crossover == IF check_macd_crossover(df) THEN 40 ELSE 0
             bullish == IF is_macd_bullish(df) THEN 20 ELSE 0
             expanding == IF is_histogram_expanding(df) THEN 20 ELSE 0
             strength ==
                 IF ~IsNaN(macd_val) /\ macd_val > 0 /\ df.macd_range > 0
                 THEN Min((macd_val * 20) \div df.macd_range, 20)
                 ELSE 0
         IN  Min(crossover + bullish + expanding + strength, 100)

\* faulty variant of calculate_rsi_score: the momentum zone without its edges
rsi_score_open_zone(df) == IF ~df.columns \/ IsNaN(Back(df.RSI, 1)) THEN 0 ELSE Min((IF 45 < Back(df.RSI, 1) /\ Back(df.RSI, 1) < 65 THEN 50 ELSE IF 35 <= Back(df.RSI, 1) /\ Back(df.RSI, 1) <= 70 THEN 25 ELSE 0) + (IF df.bars >= 3 /\ ~IsNaN(Back(df.RSI, 3)) /\ Back(df.RSI, 1) > Back(df.RSI, 3) THEN 25 ELSE 0) + (IF Back(df.RSI, 1) < 70 THEN 25 ELSE IF Back(df.RSI, 1) < 80 THEN 10 ELSE 0), 100)

calculate_rsi_score(df) ==
    IF ~df.columns THEN 0
    ELSE LET rsi == Back(df.RSI, 1) IN
         IF IsNaN(rsi) THEN 0
         ELSE LET zone == IF 45 <= rsi /\ rsi <= 65 THEN 50
                          ELSE IF (35 <= rsi /\ rsi < 45) \/ (65 < rsi /\ rsi <= 70)
                          THEN 25 ELSE 0
                  rising == IF df.bars >= 3
                               /\ ~IsNaN(Back(df.RSI, 3))
                               /\ rsi > Back(df.RSI, 3)
                            THEN 25 ELSE 0
                  room == IF rsi < 70 THEN 25 ELSE IF rsi < 80 THEN 10 ELSE 0
              IN  Min(zone + rising + room, 100)

calculate_volume_score(df) ==
    IF ~df.columns THEN 0
    ELSE LET current_vol == Back(df.Volume, 1)
             avg_vol == Back(df.Volume_SMA_20, 1)
         IN
         IF IsNaN(avg_vol) \/ avg_vol = 0 THEN 0
         ELSE LET spike == IF current_vol > 2 * avg_vol THEN 50
                           ELSE IF 2 * current_vol > 3 * avg_vol THEN 35
                           ELSE IF current_vol > avg_vol THEN 20 ELSE 0
                  recent_vols == TailOf(df.Volume, 5)
                  trend == IF Len(recent_vols) >= 3
                           THEN IF Back(recent_vols, 1) > Back(recent_vols, 3) THEN 30
                                ELSE IF Back(recent_vols, 1) > Back(recent_vols, 2)
                                THEN 15 ELSE 0
                           ELSE 0
                  last_5_avg == TailOf(df.Volume_SMA_20, 5)
                  above_avg_count ==
                      Cardinality({i \in 1..Len(recent_vols) :
                                     /\ ~IsNaN(last_5_avg[i])
                                     /\ recent_vols[i] > last_5_avg[i]})
                  steady == IF Len(recent_vols) = Len(last_5_avg)
                            THEN IF above_avg_count >= 4 THEN 20
                                 ELSE IF above_avg_count >= 3 THEN 10 ELSE 0
                            ELSE 0
              IN  Min(spike + trend + steady, 100)

\* current_price = 0: the distance to the support is -inf, no branch is taken
calculate_breakout_score(df, current_price) ==
    LET high_20 == df.high_max
        breakout == IF 100 * current_price >= 99 * high_20 THEN 40
                    ELSE IF 100 * current_price >= 97 * high_20 THEN 20 ELSE 0
        above_20 == IF df.columns /\ ~IsNaN(df.SMA_20) /\ current_price > df.SMA_20
                    THEN 15 ELSE 0
        above_50 == IF df.columns /\ ~IsNaN(df.SMA_50) /\ current_price > df.SMA_50
                    THEN 15 ELSE 0
        support_levels == find_support_resistance(df).support_levels
        support ==
            IF support_levels = <<>> \/ current_price = 0 THEN 0
            ELSE LET distance100 == (current_price - support_levels[1]) * 100
                 IN  IF 5 * current_price <= distance100
                        /\ distance100 <= 10 * current_price THEN 30
                     ELSE IF 3 * current_price <= distance100
                             /\ distance100 <= 15 * current_price THEN 20
                     ELSE IF distance100 > 2 * current_price THEN 10
                     ELSE 0
    IN  Min(breakout + above_20 + above_50 + support, 100)

\* every comparison with a momentum that is not a number is false
calculate_momentum_score(df) ==
    LET momentum_5d == calculate_momentum(df, 5)
        momentum_3d == calculate_momentum(df, 3)
        d == momentum_5d.den
        m == 100 * momentum_5d.num
        pace == IF d = 0 THEN 0
                ELSE IF 5 * d <= m /\ m <= 15 * d THEN 50
                ELSE IF (3 * d <= m /\ m < 5 * d) \/ (15 * d < m /\ m <= 20 * d)
                THEN 35
                ELSE IF d <= m /\ m < 3 * d THEN 20 ELSE 0
        \* momentum_3d > momentum_5d * 0.6
        acceleration ==
            IF momentum_3d.den = 0 THEN 0
            ELSE IF d # 0 /\ 10 * momentum_3d.num * d
                              > 6 * momentum_5d.num * momentum_3d.den
            THEN 25
            ELSE IF momentum_3d.num > 0 THEN 10 ELSE 0
        last_5_highs == TailOf(df.High, 5)
        is_higher_highs ==
            \A i \in 2..Len(last_5_highs) :
               ~(100 * last_5_highs[i] < 98 * last_5_highs[i - 1])
        highs == IF df.bars >= 5
                 THEN IF is_higher_highs THEN 25
                      ELSE IF Back(last_5_highs, 1) > last_5_highs[1] THEN 10 ELSE 0
                 ELSE 0
    IN  Min(pace + acceleration + highs, 100)

\* faulty variant of calculate_scores: momentum weighted 0.25, the weights
\* add up to 1.10
scores_overweighted(stock_data, df) ==
    LET macd_score == calculate_macd_score(df)
        rsi_score == calculate_rsi_score(df)
        volume_score == calculate_volume_score(df)
        breakout_score == calculate_breakout_score(df, stock_data.current_price)
        momentum_score == calculate_momentum_score(df)
    IN  [macd_score |-> macd_score, rsi_score |-> rsi_score,
         volume_score |-> volume_score, breakout_score |-> breakout_score,
         momentum_score |-> momentum_score,
         overall_score |->
             [num |-> macd_score * MACD_WEIGHT + rsi_score * RSI_WEIGHT
                      + volume_score * VOLUME_WEIGHT
                      + breakout_score * BREAKOUT_WEIGHT
                      + momentum_score * MACD_WEIGHT,
              den |-> 100]]

\* calculate_overall_score: the dictionary of the five scores and the overall
\* one; overall_score is the weighted sum, as a ratio over 100
calculate_scores(stock_data, df) ==
    LET macd_score == calculate_macd_score(df)
        rsi_score == calculate_rsi_score(df)
        volume_score == calculate_volume_score(df)
        breakout_score == calculate_breakout_score(df, stock_data.current_price)
        momentum_score == calculate_momentum_score(df)
    IN  [macd_score |-> macd_score, rsi_score |-> rsi_score,
         volume_score |-> volume_score, breakout_score |-> breakout_score,
         momentum_score |-> momentum_score,
         overall_score |->
             [num |-> macd_score * MACD_WEIGHT + rsi_score * RSI_WEIGHT
                      + volume_score * VOLUME_WEIGHT
                      + breakout_score * BREAKOUT_WEIGHT
                      + momentum_score * MOMENTUM_WEIGHT,
              den |-> 100]]

----------------------------------------------------------------------------
(* The scoring functions called on their own *)

\* a quiet frame of 60 bars: every price 100.00, every score part 0 but the
\* ones a flat price earns
BaseFrame ==
    [bars |-> 60, columns |-> TRUE,
     Close |-> [i \in 1..6 |-> Dollars(100)],
     High |-> [i \in 1..5 |-> Dollars(100)],
     Volume |-> [i \in 1..5 |-> 1000],
     high_max |-> Dollars(100),
     high_points |-> <<Dollars(100)>>,
     low_points |-> <<>>,
     MACD |-> <<0, 0, 0, 0>>, MACD_signal |-> <<0, 0, 0, 0>>, macd_range |-> 0,
     RSI |-> <<50, 50, 50>>,
     SMA_20 |-> Dollars(100), SMA_50 |-> Dollars(100),
     Volume_SMA_20 |-> [i \in 1..5 |-> 1000]]

\* MACD and signal line over the last 4 bars, and the MACD range of the last 20
MacdCases ==
    {[MACD |-> <<10, 10, 20, 40>>, MACD_signal |-> <<15, 15, 15, 15>>, macd_range |-> 30],
     [MACD |-> <<0 - 20, 0 - 20, 10, 40>>, MACD_signal |-> <<0, 0, 0, 0>>, macd_range |-> 60],
     [MACD |-> <<0 - 20, 0 - 20, 0 - 20, 0 - 20>>, MACD_signal |-> <<0, 0, 0, 0>>, macd_range |-> 0],
     [MACD |-> <<20, 20, 20, 20>>, MACD_signal |-> <<10, 10, 10, 10>>, macd_range |-> 0],
     [MACD |-> <<0, NaN, 10, 20>>, MACD_signal |-> <<5, 5, 5, 5>>, macd_range |-> 20],
     [MACD |-> <<NaN, NaN, NaN, NaN>>, MACD_signal |-> <<NaN, NaN, NaN, NaN>>, macd_range |-> 0],
     [MACD |-> <<5, 5, 5, 10>>, MACD_signal |-> <<5, 5, 5, 5>>, macd_range |-> 5],
     [MACD |-> <<40, 30, 20, 10>>, MACD_signal |-> <<20, 20, 20, 20>>, macd_range |-> 30]}

RsiLevels == {NaN, 30, 35, 44, 45, 65, 66, 70, 75, 80, 95}

\* volumes and their 20-day average over the last 5 bars
VolumeCases ==
    {[Volume |-> <<1500, 1500, 1500, 1500, 2500>>, Volume_SMA_20 |-> <<1000, 1000, 1000, 1000, 1000>>],
     [Volume |-> <<1500, 1500, 1500, 1500, 2000>>, Volume_SMA_20 |-> <<1000, 1000, 1000, 1000, 1000>>],
     [Volume |-> <<900, 900, 1600, 1500, 1600>>, Volume_SMA_20 |-> <<1000, 1000, 1000, 1000, 1000>>],
     [Volume |-> <<900, 900, 1200, 1000, 1100>>, Volume_SMA_20 |-> <<1000, 1000, 1000, 1000, 1000>>],
     [Volume |-> <<900, 900, 900, 900, 900>>, Volume_SMA_20 |-> <<1000, 1000, 1000, 1000, 1000>>],
     [Volume |-> <<900, 900, 900, 900, 1000>>, Volume_SMA_20 |-> <<1000, 1000, 1000, 1000, 1000>>],
     [Volume |-> <<1500, 1500, 1500, 1500, 2500>>, Volume_SMA_20 |-> <<NaN, NaN, NaN, NaN, 1000>>],
     [Volume |-> <<1500, 1500, 1500, 1500, 2500>>, Volume_SMA_20 |-> <<1000, 1000, 1000, 1000, NaN>>],
     [Volume |-> <<0, 0, 0, 0, 0>>, Volume_SMA_20 |-> <<0, 0, 0, 0, 0>>],
     [Volume |-> <<0, 0, 0, 0, 5000>>, Volume_SMA_20 |-> <<0, 0, 0, 0, 250>>]}

\* the last 6 closes and the last 5 highs
MomentumCases ==
    {[Close |-> <<90, 92, 93, 96, 98, 100>>, High |-> <<93, 94, 97, 99, 101>>],
     [Close |-> <<90, 92, 94, 96, 98, 100>>, High |-> <<93, 94, 97, 90, 101>>],
     [Close |-> <<96, 97, 98, 99, 99, 100>>, High |-> <<101, 100, 99, 99, 99>>],
     [Close |-> <<98, 98, 101, 99, 99, 100>>, High |-> <<110, 100, 99, 99, 99>>],
     [Close |-> <<84, 90, 95, 99, 99, 100>>, High |-> <<100, 100, 100, 100, 100>>],
     [Close |-> <<80, 90, 100, 99, 99, 100>>, High |-> <<100, 100, 100, 100, 100>>],
     [Close |-> <<100, 100, 100, 100, 100, 100>>, High |-> <<100, 100, 100, 100, 100>>],
     [Close |-> <<120, 115, 110, 105, 102, 100>>, High |-> <<121, 116, 111, 106, 103>>],
     [Close |-> <<100, 100, 90, 100, 100, 100>>, High |-> <<100, 100, 100, 100, 102>>],
     [Close |-> <<NaN, 92, 93, 96, 98, 100>>, High |-> <<93, 94, 97, 99, 101>>],
     [Close |-> <<90, 92, 93, 96, 98, NaN>>, High |-> <<93, 94, 97, 99, 101>>]}

\* a quote and the levels around the last close of 100.00
BreakoutPrices == {0, Dollars(90), Dollars(97), Dollars(99), Dollars(100), Dollars(110)}
BreakoutAverages == {NaN, Dollars(95), Dollars(105)}
BreakoutLows ==
    {<<>>, <<Dollars(80), Dollars(92)>>, <<Dollars(96)>>, <<Dollars(85), Dollars(98)>>,
     <<Dollars(100)>>}

InDollars(s) == [i \in 1..Len(s) |-> IF IsNaN(s[i]) THEN NaN ELSE Dollars(s[i])]

WithMacd(df, c) ==
    [df EXCEPT !.MACD = c.MACD, !.MACD_signal = c.MACD_signal,
               !.macd_range = c.macd_range]
WithVolume(df, c) ==
    [df EXCEPT !.Volume = c.Volume, !.Volume_SMA_20 = c.Volume_SMA_20]
WithCloses(df, c) ==
    [df EXCEPT !.Close = InDollars(c.Close), !.High = InDollars(c.High),
               !.high_max = Dollars(SeqMaxOf(c.High)),
               !.high_points = <<Dollars(SeqMaxOf(c.High))>>]

\* the frame with the indicator columns missing, and the frame cut to its
\* last n bars
Bare(df) == [df EXCEPT !.columns = FALSE]
Short(df, n) ==
    [df EXCEPT !.bars = n,
               !.Close = TailOf(df.Close, n), !.High = TailOf(df.High, n),
               !.Volume = TailOf(df.Volume, n), !.MACD = TailOf(df.MACD, n),
               !.MACD_signal = TailOf(df.MACD_signal, n),
               !.RSI = TailOf(df.RSI, n),
               !.Volume_SMA_20 = TailOf(df.Volume_SMA_20, n)]

\* every frame of the set, also without its indicator columns and cut short
Variants(frames) ==
    frames \cup {Bare(df) : df \in frames}
           \cup {Short(df, n) : df \in frames, n \in {1, 2, 4}}

MacdFrames == Variants({WithMacd(BaseFrame, c) : c \in MacdCases})
RsiFrames ==
    Variants({[BaseFrame EXCEPT !.RSI = <<prev, 50, rsi>>] :
                 prev \in {NaN, 20, 99}, rsi \in RsiLevels})
VolumeFrames == Variants({WithVolume(BaseFrame, c) : c \in VolumeCases})
MomentumFrames == Variants({WithCloses(BaseFrame, c) : c \in MomentumCases})
BreakoutFrames ==
    Variants({[BaseFrame EXCEPT !.SMA_20 = a, !.SMA_50 = b, !.low_points = lows] :
                 a \in BreakoutAverages, b \in BreakoutAverages,
                 lows \in BreakoutLows})

\* frames for calculate_overall_score: every part at its best, at its worst
\* and in between
BestMacd == [MACD |-> <<10, 10, 20, 40>>, MACD_signal |-> <<15, 15, 15, 15>>, macd_range |-> 30]
WorstMacd == [MACD |-> <<0 - 20, 0 - 20, 0 - 20, 0 - 20>>, MACD_signal |-> <<0, 0, 0, 0>>, macd_range |-> 0]
BestVolume == [Volume |-> <<1500, 1500, 1500, 1500, 2500>>, Volume_SMA_20 |-> <<1000, 1000, 1000, 1000, 1000>>]
WorstVolume == [Volume |-> <<900, 900, 900, 900, 900>>, Volume_SMA_20 |-> <<1000, 1000, 1000, 1000, 1000>>]
BestCloses == [Close |-> <<90, 92, 93, 96, 98, 100>>, High |-> <<93, 94, 97, 99, 100>>]
WorstCloses == [Close |-> <<120, 115, 110, 105, 102, 100>>, High |-> <<121, 116, 111, 106, 103>>]

OverallFrames ==
    Variants({[WithCloses(WithVolume(WithMacd(BaseFrame, m), v), c)
                  EXCEPT !.RSI = <<50, 50, rsi>>, !.SMA_20 = sma, !.SMA_50 = sma,
                         !.low_points = lows] :
                 m \in {BestMacd, WorstMacd}, v \in {BestVolume, WorstVolume},
                 c \in {BestCloses, WorstCloses}, rsi \in {60, 95},
                 sma \in {Dollars(95), Dollars(105)},
                 lows \in {<<>>, <<Dollars(92)>>}})

ScoreInit ==
    /\ NoScan
    /\ call \in
          [fn : {"calculate_macd_score"}, df : MacdFrames]
          \cup [fn : {"calculate_rsi_score"}, df : RsiFrames]
          \cup [fn : {"calculate_volume_score"}, df : VolumeFrames]
          \cup [fn : {"calculate_momentum_score"}, df : MomentumFrames]
          \cup [fn : {"calculate_breakout_score"}, df : BreakoutFrames,
                current_price : BreakoutPrices]
          \cup [fn : {"calculate_overall_score"}, df : OverallFrames,
                current_price : {0, Dollars(90), Dollars(100)}]
    /\ outcome = <<>>
    /\ NoCacheCalls
    /\ NoWatching
    /\ NoMonitoring

ReturnMacdScore ==
    /\ Calling("calculate_macd_score")
    /\ outcome' = <<calculate_macd_score(call.df)>>
    /\ UNCHANGED <<scan_vars, call, cache_vars, watch_vars, monitor_vars>>

ReturnRsiScore ==
    /\ Calling("calculate_rsi_score")
    /\ outcome' = <<calculate_rsi_score(call.df)>>
    /\ UNCHANGED <<scan_vars, call, cache_vars, watch_vars, monitor_vars>>

ReturnVolumeScore ==
    /\ Calling("calculate_volume_score")
    /\ outcome' = <<calculate_volume_score(call.df)>>
    /\ UNCHANGED <<scan_vars, call, cache_vars, watch_vars, monitor_vars>>

ReturnMomentumScore ==
    /\ Calling("calculate_momentum_score")
    /\ outcome' = <<calculate_momentum_score(call.df)>>
    /\ UNCHANGED <<scan_vars, call, cache_vars, watch_vars, monitor_vars>>

ReturnBreakoutScore ==
    /\ Calling("calculate_breakout_score")
    /\ outcome' = <<calculate_breakout_score(call.df, call.current_price)>>
    /\ UNCHANGED <<scan_vars, call, cache_vars, watch_vars, monitor_vars>>

ReturnOverallScore ==
    /\ Calling("calculate_overall_score")
    /\ outcome' = <<calculate_scores([current_price |-> call.current_price],
                                     call.df)>>
    /\ UNCHANGED <<scan_vars, call, cache_vars, watch_vars, monitor_vars>>

ScoreNext ==
    \/ ReturnMacdScore
    \/ ReturnRsiScore
    \/ ReturnVolumeScore
    \/ ReturnMomentumScore
    \/ ReturnBreakoutScore
    \/ ReturnOverallScore

ScoreSpec == ScoreInit /\ [][ScoreNext]_vars

SubScoreFunctions ==
    {"calculate_macd_score", "calculate_rsi_score", "calculate_volume_score",
     "calculate_momentum_score", "calculate_breakout_score"}

(* C13: for every indicator frame and current price each of the five       *)
(* sub-scores (macd, rsi, volume, breakout, momentum) is in [0,100], and    *)
(* the overall score calculate_overall_score returns is their weighted sum  *)
(* with weights 0.25 / 0.20 / 0.20 / 0.20 / 0.15 and is in [0,100].         *)
C13_ScoresInRange ==
    /\ (call.fn \in SubScoreFunctions /\ outcome # <<>>) => outcome[1] \in 0..100
    /\ Called("calculate_overall_score") =>
          LET scores == outcome[1] IN
          /\ scores.macd_score \in 0..100
          /\ scores.rsi_score \in 0..100
          /\ scores.volume_score \in 0..100
          /\ scores.breakout_score \in 0..100
          /\ scores.momentum_score \in 0..100
          /\ scores.overall_score.den = 100
          /\ scores.overall_score.num =
                25 * scores.macd_score + 20 * scores.rsi_score
                + 20 * scores.volume_score + 20 * scores.breakout_score
                + 15 * scores.momentum_score
          /\ scores.overall_score.num >= 0
          /\ scores.overall_score.num <= 100 * scores.overall_score.den

\* calculate_overall_score returned 100 for each of the five scores and 100
\* overall
C13_Witness ==
    /\ Called("calculate_overall_score")
    /\ outcome[1].macd_score = 100
    /\ outcome[1].rsi_score = 100
    /\ outcome[1].volume_score = 100
    /\ outcome[1].breakout_score = 100
    /\ outcome[1].momentum_score = 100
    /\ outcome[1].overall_score = [num |-> 10000, den |-> 100]

----------------------------------------------------------------------------
(***************************************************************************)
(* core/return_estimator.py on a frame.                                    *)
(*                                                                         *)
(* A float is a ratio [num, den]: den > 0 a number, den = 0 and num = 0    *)
(* not a number, den = 0 and num = 1 +infinity.  The frame carries two     *)
(* more aggregates: range_pct = the mean of the 5-day high-low ranges of   *)
(* the last 20 bars in percent, and daily_returns = <<>> when              *)
(* Close.pct_change().dropna() of the last 10 bars is empty, else <<the    *)
(* mean daily return>>.                                                    *)
(***************************************************************************)

Infinity == [num |-> 1, den |-> 0]
Number(n) == [num |-> n, den |-> 1]
IsNumber(x) == x.den > 0

RECURSIVE Gcd(_, _)
Gcd(a, b) == IF b = 0 THEN a ELSE Gcd(b, a % b)

Abs(n) == IF n < 0 THEN 0 - n ELSE n

\* the same number in lowest terms
Reduced(x) ==
    IF x.num = 0 THEN Number(0)
    ELSE LET g == Gcd(Abs(x.num), x.den)
         IN  [num |-> x.num \div g, den |-> x.den \div g]

\* k * x / n and x + y on floats: not a number wins, then infinity (the
\* numbers added here are never negative)
Scaled(k, x, n) ==
    IF IsNumber(x) THEN Reduced([num |-> k * x.num, den |-> n * x.den]) ELSE x
Plus(x, y) ==
    IF x = NotANumber \/ y = NotANumber THEN NotANumber
    ELSE IF x = Infinity \/ y = Infinity THEN Infinity
    ELSE Reduced([num |-> x.num * y.den + y.num * x.den, den |-> x.den * y.den])

\* calculate_historical_volatility: no window of 5 on a frame of 5 bars
calculate_historical_volatility(df) ==
    IF df.bars <= 5 THEN Number(0) ELSE df.range_pct

\* calculate_technical_target: the way to the nearest resistance, in percent;
\* a division by a current price of 0 is +infinity
calculate_technical_target(df, current_price) ==
    LET levels == find_support_resistance(df)
        resistance == IF levels.resistance_levels = <<>> THEN levels.resistance
                      ELSE levels.resistance_levels[1]
    IN  IF IsNaN(current_price) THEN NotANumber
        ELSE IF resistance <= current_price THEN Number(0)
        ELSE IF current_price = 0 THEN Infinity
        ELSE Reduced([num |-> (resistance - current_price) * 100,
                      den |-> current_price])

\* calculate_momentum_projection: half the 5-day momentum when it is
\* positive; not a number is not <= 0 and is passed on
calculate_momentum_projection(df) ==
    LET current_momentum == calculate_momentum(df, 5)
    IN  IF current_momentum = NotANumber THEN NotANumber
        ELSE IF current_momentum.num <= 0 THEN Number(0)
        ELSE Scaled(100, current_momentum, 2)

calculate_technical_strength(df) ==
    LET macd == IF df.columns
                   /\ ~IsNaN(Back(df.MACD, 1)) /\ ~IsNaN(Back(df.MACD_signal, 1))
                   /\ Back(df.MACD, 1) > Back(df.MACD_signal, 1)
                THEN 15 ELSE 0
        rsi == IF df.columns /\ ~IsNaN(Back(df.RSI, 1))
                  /\ 45 <= Back(df.RSI, 1) /\ Back(df.RSI, 1) <= 70
               THEN 15 ELSE 0
        above == IF df.columns /\ ~IsNaN(df.SMA_20) /\ ~IsNaN(Back(df.Close, 1))
                    /\ Back(df.Close, 1) > df.SMA_20
                 THEN 10 ELSE 0
    IN  macd + rsi + above

calculate_volume_confidence(df) ==
    IF ~df.columns THEN 0
    ELSE LET current_vol == Back(df.Volume, 1)
             avg_vol == Back(df.Volume_SMA_20, 1)
             recent_vols == TailOf(df.Volume, 5)
         IN  IF IsNaN(avg_vol) \/ avg_vol = 0 THEN 0
             ELSE (IF 2 * current_vol > 3 * avg_vol THEN 20
                   ELSE IF current_vol > avg_vol THEN 10 ELSE 0)
                  + (IF Len(recent_vols) >= 3
                        /\ Back(recent_vols, 1) > Back(recent_vols, 3)
                     THEN 10 ELSE 0)

\* the agreement points: with x1, x2, x3 the three returns over a common
\* denominator and s their sum, variance / mean^2 = (3 * sum xi^2 - s^2) / s^2;
\* a mean that is not a number or infinite compares false everywhere
AgreementScore(hist_ret, tech_ret, mom_ret) ==
    IF ~(IsNumber(hist_ret) /\ IsNumber(tech_ret) /\ IsNumber(mom_ret)) THEN 10
    ELSE LET x1 == hist_ret.num * tech_ret.den * mom_ret.den
             x2 == tech_ret.num * hist_ret.den * mom_ret.den
             x3 == mom_ret.num * hist_ret.den * tech_ret.den
             s == x1 + x2 + x3
             spread == 3 * (x1 * x1 + x2 * x2 + x3 * x3) - s * s
         IN  IF s <= 0 THEN 10
             ELSE IF 10 * spread < s * s THEN 30
             ELSE IF 10 * spread < 3 * s * s THEN 20
             ELSE 10

\* faulty variant of calculate_confidence_score: no return of 0.0 for a zero mean
confidence_without_zero_guard(hist_ret, tech_ret, mom_ret, df) ==
    Min(AgreementScore(hist_ret, tech_ret, mom_ret)
        + calculate_technical_strength(df) + calculate_volume_confidence(df), 100)

calculate_confidence_score(hist_ret, tech_ret, mom_ret, df) ==
    IF Plus(Plus(hist_ret, tech_ret), mom_ret) = Number(0) THEN 0
    ELSE Min(AgreementScore(hist_ret, tech_ret, mom_ret)
             + calculate_technical_strength(df)
             + calculate_volume_confidence(df), 100)

\* a call that raises, and one that returns value
Raises == [raised |-> TRUE]
Returns(value) == [raised |-> FALSE, value |-> value]

\* estimate_days_to_target: int() raises on a float that is not a number
\* (ValueError) or infinite (OverflowError)
estimate_days_to_target(df, target_return) ==
    IF df.daily_returns = <<>> THEN Returns(7)
    ELSE LET avg_daily_return_pct == df.daily_returns[1]
         IN  IF avg_daily_return_pct.num <= 0 THEN Returns(10)
             ELSE IF ~IsNumber(target_return) THEN Raises
             ELSE Returns(Max(5, Min(10,
                     (target_return.num * avg_daily_return_pct.den)
                     \div (target_return.den * avg_daily_return_pct.num))))

\* estimate_return_potential on a frame: it returns the three values or raises
estimate_returns(stock_data, df) ==
    IF df.bars < 30
    THEN Returns([estimated_return |-> Number(0), confidence |-> 0,
                  days_to_target |-> 10])
    ELSE LET historical_return == calculate_historical_volatility(df)
             technical_return ==
                 calculate_technical_target(df, stock_data.current_price)
             momentum_return == calculate_momentum_projection(df)
             estimated_return ==
                 Plus(Plus(Scaled(4, historical_return, 10),
                           Scaled(3, technical_return, 10)),
                      Scaled(3, momentum_return, 10))
             confidence ==
                 calculate_confidence_score(historical_return, technical_return,
                                            momentum_return, df)
             days_to_target == estimate_days_to_target(df, estimated_return)
         IN  IF days_to_target.raised THEN Raises
             ELSE Returns([estimated_return |-> estimated_return,
                           confidence |-> confidence,
                           days_to_target |-> days_to_target.value])

----------------------------------------------------------------------------
(* estimate_return_potential and its parts called on their own *)

\* df with the two aggregates the estimator reads
EstimatorFrame(df, range_pct, daily_returns) ==
    [f \in DOMAIN df \cup {"range_pct", "daily_returns"} |->
        IF f = "range_pct" THEN range_pct
        ELSE IF f = "daily_returns" THEN daily_returns
        ELSE df[f]]

\* the last 6 closes and the high above them
EstimatorCloses ==
    {[Close |-> <<90, 92, 93, 96, 98, 100>>, High |-> <<100, 100, 100, 100, 110>>],
     [Close |-> <<100, 100, 100, 100, 100, 100>>, High |-> <<100, 100, 100, 100, 100>>],
     [Close |-> <<NaN, 92, 93, 96, 98, 100>>, High |-> <<100, 100, 100, 100, 110>>],
     [Close |-> <<90, 92, 93, 96, 98, NaN>>, High |-> <<100, 100, 100, 100, 110>>]}

EstimatorRanges == {Number(0), Number(8), Number(10)}
EstimatorDailyReturns ==
    {<<>>, <<Number(0)>>, <<[num |-> 0 - 1, den |-> 2]>>, <<[num |-> 1, den |-> 2]>>,
     <<Number(1)>>, <<Number(3)>>}
EstimatorPrices == {0, NaN, Dollars(100), Dollars(110)}
EstimatorBars == {29, 30, 60}

EstimatorFrames ==
    {EstimatorFrame(
        [WithCloses(WithVolume(WithMacd(BaseFrame, m), v), c)
            EXCEPT !.bars = n, !.columns = (n >= 50),
                   !.RSI = <<50, 50, rsi>>, !.SMA_20 = sma], r, d) :
        m \in {BestMacd, WorstMacd}, v \in {BestVolume, WorstVolume},
        c \in EstimatorCloses, rsi \in {60, 95},
        sma \in {Dollars(95), Dollars(105)}, n \in EstimatorBars,
        r \in EstimatorRanges, d \in EstimatorDailyReturns}

EstimateInit ==
    /\ NoScan
    /\ call \in
          [fn : {"estimate_return_potential"}, df : EstimatorFrames,
           current_price : EstimatorPrices]
          \cup [fn : {"estimate_days_to_target"},
                df : {EstimatorFrame(BaseFrame, Number(0), d) :
                         d \in EstimatorDailyReturns},
                target_return : {Number(0), Number(8), Number(40), NotANumber,
                                 Infinity}]
    /\ outcome = <<>>
    /\ NoCacheCalls
    /\ NoWatching
    /\ NoMonitoring

ReturnEstimate ==
    /\ Calling("estimate_return_potential")
    /\ outcome' = <<estimate_returns([current_price |-> call.current_price],
                                     call.df)>>
    /\ UNCHANGED <<scan_vars, call, cache_vars, watch_vars, monitor_vars>>

ReturnDaysToTarget ==
    /\ Calling("estimate_days_to_target")
    /\ outcome' = <<estimate_days_to_target(call.df, call.target_return)>>
    /\ UNCHANGED <<scan_vars, call, cache_vars, watch_vars, monitor_vars>>

EstimateNext == ReturnEstimate \/ ReturnDaysToTarget

EstimateSpec == EstimateInit /\ [][EstimateNext]_vars

(* C14: for every input estimate_return_potential returns a confidence in   *)
(* [0,100] and an integer days_to_target in [5,10]: exactly (0.0, 0.0, 10)  *)
(* with fewer than 30 bars, 10 days when the average daily return is not    *)
(* positive, and the default when there are no daily returns.               *)
C14_EstimateInRange ==
    /\ Called("estimate_return_potential") =>
          /\ ~outcome[1].raised
          /\ outcome[1].value.confidence \in 0..100
          /\ outcome[1].value.days_to_target \in 5..10
          /\ call.df.bars < 30 =>
                outcome[1].value = [estimated_return |-> Number(0),
                                    confidence |-> 0, days_to_target |-> 10]
          /\ (call.df.bars >= 30 /\ call.df.daily_returns = <<>>) =>
                outcome[1].value.days_to_target = 7
          /\ (call.df.bars >= 30 /\ call.df.daily_returns # <<>>
              /\ call.df.daily_returns[1].num <= 0) =>
                outcome[1].value.days_to_target = 10
    /\ Called("estimate_days_to_target") =>
          /\ ~outcome[1].raised
          /\ outcome[1].value \in 5..10

\* what holds of the calls that return
C14_InRangeWhenReturned ==
    /\ (Called("estimate_return_potential") /\ ~outcome[1].raised) =>
          /\ outcome[1].value.confidence \in 0..100
          /\ outcome[1].value.days_to_target \in 5..10
    /\ (Called("estimate_days_to_target") /\ ~outcome[1].raised) =>
          outcome[1].value \in 5..10

----------------------------------------------------------------------------
(* calculate_all_indicators, and scoring and estimation on its result *)

\* calculate_all_indicators: the copy of the history, with the indicator
\* columns when it has 50 bars
calculate_all_indicators(hist_data) ==
    IF hist_data.bars < 50 THEN hist_data
    ELSE [hist_data EXCEPT !.columns = TRUE]

\* price histories as yfinance delivers them: no indicator columns (the
\* indicator fields of the record are not read while columns is FALSE)
HistoryBars == {1, 4, 29, 30, 49, 50, 60}
Histories ==
    {Bare(Short(EstimatorFrame(
        [WithCloses(WithVolume(BaseFrame, BestVolume), c)
            EXCEPT !.low_points = lows], r, d), n)) :
        c \in EstimatorCloses, lows \in {<<>>, <<Dollars(92)>>},
        r \in {Number(0), Number(8)},
        d \in {<<Number(0)>>, <<[num |-> 0 - 1, den |-> 2]>>, <<Number(1)>>},
        n \in HistoryBars}

IndicatorInit ==
    /\ NoScan
    /\ call \in [fn : {"calculate_all_indicators"}, hist_data : Histories,
                 current_price : {Dollars(90), Dollars(100), Dollars(110)}]
    /\ outcome = <<>>
    /\ NoCacheCalls
    /\ NoWatching
    /\ NoMonitoring

ReturnIndicators ==
    /\ Calling("calculate_all_indicators")
    /\ outcome' = <<calculate_all_indicators(call.hist_data)>>
    /\ UNCHANGED <<scan_vars, call, cache_vars, watch_vars, monitor_vars>>

\* calculate_overall_score on the frame calculate_all_indicators returned
ScoreIndicators ==
    /\ Called("calculate_all_indicators")
    /\ call' = [fn |-> "calculate_overall_score", df |-> outcome[1],
                current_price |-> call.current_price]
    /\ outcome' = <<calculate_scores([current_price |-> call.current_price],
                                     outcome[1])>>
    /\ UNCHANGED <<scan_vars, cache_vars, watch_vars, monitor_vars>>

\* estimate_return_potential on the frame calculate_all_indicators returned
EstimateIndicators ==
    /\ Called("calculate_all_indicators")
    /\ call' = [fn |-> "estimate_return_potential", df |-> outcome[1],
                current_price |-> call.current_price]
    /\ outcome' = <<estimate_returns([current_price |-> call.current_price],
                                     outcome[1])>>
    /\ UNCHANGED <<scan_vars, cache_vars, watch_vars, monitor_vars>>

IndicatorNext ==
    \/ ReturnIndicators
    \/ ScoreIndicators
    \/ EstimateIndicators

IndicatorSpec == IndicatorInit /\ [][IndicatorNext]_vars

(* C15: with fewer than 50 bars calculate_all_indicators returns the series *)
(* with no indicator columns added, and scoring and return estimation on    *)
(* that output yield an overall score of 0 and an estimated return of 0.    *)
C15_ShortHistoryIsZero ==
    /\ (Called("calculate_all_indicators") /\ call.hist_data.bars < 50) =>
          /\ outcome[1] = call.hist_data
          /\ ~outcome[1].columns
    /\ (Called("calculate_overall_score") /\ call.df.bars < 50) =>
          outcome[1].overall_score.num = 0
    /\ (Called("estimate_return_potential") /\ call.df.bars < 50) =>
          /\ ~outcome[1].raised
          /\ outcome[1].value.estimated_return = Number(0)

\* the parts of the claim that hold: no columns are added, the three scores
\* that read indicator columns are 0, and under 30 bars the estimate is
\* (0.0, 0.0, 10)
C15_ShortHistoryParts ==
    /\ (Called("calculate_all_indicators") /\ call.hist_data.bars < 50) =>
          outcome[1] = call.hist_data /\ ~outcome[1].columns
    /\ (Called("calculate_overall_score") /\ call.df.bars < 50) =>
          /\ outcome[1].macd_score = 0
          /\ outcome[1].rsi_score = 0
          /\ outcome[1].volume_score = 0
    /\ (Called("estimate_return_potential") /\ call.df.bars < 30) =>
          outcome[1] = Returns([estimated_return |-> Number(0),
                                confidence |-> 0, days_to_target |-> 10])

----------------------------------------------------------------------------
(* utils/cache.py: Cache.get and Cache.set called one after the other *)

MaxHours == 6

\* keys of the calls: two that differ in / and _ only, and another one
CacheKeys == {<<"A", "/", "B">>, <<"A", "_", "B">>, <<"C">>}
CacheValues == {"v1", "v2"}

\* what no call of the cache touches
cache_rest == <<watchlist_file, pc, idx, symbols, candidates, scored_stocks,
                estimated_stocks, tier_1_stocks, tier_2_stocks, tier,
                top_stocks, trades, results, status, raised, fetch_calls,
                min_return, arguments, disk, getter, setter, watch_vars,
                monitor_vars>>

CacheInit ==
    /\ NoScan
    /\ call = NoCall
    /\ outcome = <<>>
    /\ NoCacheCalls
    /\ NoWatching
    /\ NoMonitoring

\* cache.get(key)
Get(key) ==
    /\ call' = [fn |-> "Cache.get", key |-> key]
    /\ outcome' = <<CacheGet(cache, key, now)>>
    /\ cache' = CacheAfterGet(cache, key, now)
    /\ UNCHANGED <<stored, now, cache_rest>>

\* cache.set(key, value)
Set(key, value) ==
    /\ call' = [fn |-> "Cache.set", key |-> key, value |-> value]
    /\ outcome' = << <<>> >>
    /\ cache' = CacheSet(cache, key, value, now)
    /\ stored' = [k \in DOMAIN stored \cup {key} |->
                     IF k = key THEN [timestamp |-> now, value |-> value]
                     ELSE stored[k]]
    /\ UNCHANGED <<now, cache_rest>>

\* an hour passes between two calls
HourPasses ==
    /\ now < MaxHours
    /\ now' = now + 1
    /\ call' = NoCall
    /\ outcome' = <<>>
    /\ UNCHANGED <<cache, stored, cache_rest>>

CacheNext ==
    \/ \E key \in CacheKeys : Get(key)
    \/ \E key \in CacheKeys, value \in CacheValues : Set(key, value)
    \/ HourPasses

CacheSpec == CacheInit /\ [][CacheNext]_vars

\* what get(key) is to return: the value of the last set(key, .) if there was
\* one at most CACHE_DURATION_HOURS ago, else a miss
Fresh(key) ==
    /\ key \in DOMAIN stored
    /\ now - stored[key].timestamp <= CACHE_DURATION_HOURS
LastSet(key) == IF Fresh(key) THEN <<stored[key].value>> ELSE <<>>

\* the entry of a key on disk, <<>> when there is none
EntryOf(c, key) ==
    IF GetCacheFile(key) \in DOMAIN c THEN <<c[GetCacheFile(key)]>> ELSE <<>>

C16_GetReturnsLastSet ==
    Called("Cache.get") =>
       /\ outcome[1] = LastSet(call.key)
       /\ ~Fresh(call.key) => EntryOf(cache, call.key) = <<>>

C16_OtherKeysUnaffected ==
    \A key \in CacheKeys :
       (call'.fn \in {"Cache.get", "Cache.set"} /\ call'.key = key) =>
          \A other \in CacheKeys \ {key} :
             EntryOf(cache', other) = EntryOf(cache, other)

(* C16: Cache.get(key) returns the value of the most recent                 *)
(* Cache.set(key, value) when that set is at most CACHE_DURATION_HOURS (4)  *)
(* old and a miss when the key was never set or the entry is older; a get   *)
(* that finds an expired entry removes it; get/set on a key leave the       *)
(* entries of the other keys as they are.                                   *)
C16_CacheContract ==
    []C16_GetReturnsLastSet /\ [][C16_OtherKeysUnaffected]_vars

----------------------------------------------------------------------------
(***************************************************************************)
(* utils/cache.py: Cache.get running beside Cache.set on the same key.     *)
(*                                                                         *)
(* pickle.dump writes the file through a buffer and pickle.load reads it   *)
(* through one, so a file larger than the buffer is written and read in    *)
(* several system calls: disk[file] is the sequence of blocks written so   *)
(* far, a pickled entry is two blocks.  Each step below is one system      *)
(* call; steps of the two calls interleave freely.                         *)
(***************************************************************************)

RaceKey == <<"C">>

\* the blocks pickle.dump writes for {'timestamp': t, 'value': value}
Pickled(value, t) ==
    <<[value |-> value, timestamp |-> t, part |-> 1],
      [value |-> value, timestamp |-> t, part |-> 2]>>

\* the open(cache_file, 'wb') of set: the file is there and empty
SetOpen(value) ==
    /\ setter = Idle
    /\ setter' = [pc |-> "dump", value |-> value, timestamp |-> now,
                  written |-> 0, linked |-> TRUE]
    /\ disk' = [f \in DOMAIN disk \cup {GetCacheFile(RaceKey)} |->
                   IF f = GetCacheFile(RaceKey) THEN <<>> ELSE disk[f]]
    /\ stored' = [k \in {RaceKey} |-> [timestamp |-> now, value |-> value]]
    /\ UNCHANGED <<scan_vars, call, outcome, getter, watch_vars, monitor_vars>>

\* pickle.dump: the next block goes to the file (to the removed file, once a
\* get has removed it), after the last one the file is closed
SetWrite ==
    /\ setter.pc = "dump"
    /\ LET file == GetCacheFile(RaceKey)
           block == Pickled(setter.value, setter.timestamp)[setter.written + 1]
       IN  disk' = IF setter.linked
                   THEN [disk EXCEPT ![file] = Append(@, block)]
                   ELSE disk
    /\ setter' = IF setter.written = 1 THEN Idle
                 ELSE [setter EXCEPT !.written = 1]
    /\ UNCHANGED <<scan_vars, call, outcome, stored, getter, watch_vars, monitor_vars>>

\* get: os.path.exists(cache_file)
GetExists ==
    /\ getter = Idle
    /\ call' = [fn |-> "Cache.get", key |-> RaceKey]
    /\ IF GetCacheFile(RaceKey) \in DOMAIN disk
       THEN getter' = [pc |-> "load", buf |-> <<>>] /\ outcome' = <<>>
       ELSE getter' = Idle /\ outcome' = << <<>> >>
    /\ UNCHANGED <<scan_vars, stored, disk, setter, watch_vars, monitor_vars>>

\* pickle.load reads the next block; at the end of a file that is too short
\* it raises EOFError, get prints and returns None
GetRead ==
    /\ getter.pc = "load"
    /\ Len(getter.buf) < 2
    /\ LET blocks == disk[GetCacheFile(RaceKey)]
           at == Len(getter.buf) + 1
       IN  IF at <= Len(blocks)
           THEN getter' = [getter EXCEPT !.buf = Append(@, blocks[at])]
                /\ outcome' = outcome
           ELSE getter' = Idle /\ outcome' = << <<>> >>
    /\ UNCHANGED <<scan_vars, call, stored, disk, setter, watch_vars, monitor_vars>>

\* get returns; the value it returns is written as its two halves, <<v, v>>
\* for the value v.  An entry read whole is returned or, when expired,
\* removed; blocks of two entries either fail to unpickle (get returns None)
\* or unpickle to an object made of both
GetReturn ==
    /\ getter.pc = "load"
    /\ Len(getter.buf) = 2
    /\ getter' = Idle
    /\ LET first == getter.buf[1]
           second == getter.buf[2]
           file == GetCacheFile(RaceKey)
       IN  IF first.value = second.value /\ first.timestamp = second.timestamp
           THEN IF now - first.timestamp > CACHE_DURATION_HOURS
                THEN /\ outcome' = << <<>> >>
                     /\ disk' = [f \in DOMAIN disk \ {file} |-> disk[f]]
                     /\ setter' = IF setter = Idle THEN Idle
                                  ELSE [setter EXCEPT !.linked = FALSE]
                ELSE /\ outcome' = << << <<first.value, second.value>> >> >>
                     /\ UNCHANGED <<disk, setter>>
           ELSE /\ \/ outcome' = << <<>> >>
                   \/ outcome' = << << <<first.value, second.value>> >> >>
                /\ UNCHANGED <<disk, setter>>
    /\ UNCHANGED <<scan_vars, call, stored, watch_vars, monitor_vars>>

\* an hour passes while the calls run
RaceHourPasses ==
    /\ now < MaxHours
    /\ now' = now + 1
    /\ UNCHANGED <<cache, cache_rest, call, outcome, stored>>

RaceInit ==
    /\ NoScan
    /\ call = NoCall
    /\ outcome = <<>>
    /\ NoCacheCalls
    /\ NoWatching
    /\ NoMonitoring

RaceNext ==
    \/ \E value \in CacheValues : SetOpen(value)
    \/ SetWrite
    \/ GetExists
    \/ GetRead
    \/ GetReturn
    \/ RaceHourPasses

RaceSpec == RaceInit /\ [][RaceNext]_vars

(* C17: when Cache.get(key) runs concurrently with Cache.set(key, v), get   *)
(* returns a complete previously stored value, the complete new value v or  *)
(* a miss, never a partially written (torn) value, and neither operation    *)
(* raises to its caller.                                                    *)
C17_NoTornRead ==
    /\ ~raised
    /\ Called("Cache.get") =>
          outcome[1] \in {<<>>} \cup {<< <<value, value>> >> : value \in CacheValues}

----------------------------------------------------------------------------
(***************************************************************************)
(* models/watchlist_stock.py, core/watchlist_manager.py.                   *)
(*                                                                         *)
(* watchlist is the dictionary WatchlistManager.watchlist, symbol ->       *)
(* WatchlistStock; the dates, the notes and the day estimates of a         *)
(* WatchlistStock are left out.  Scores and returns are whole percents.    *)
(***************************************************************************)

\* WatchlistStock(symbol, added_date, reason, notes) with its defaults
WatchlistStock(symbol, reason) ==
    [symbol |-> symbol, reason |-> reason,
     initial_score |-> 0, initial_return_potential |-> 0,
     initial_confidence |-> 0,
     current_score |-> 0, current_return_potential |-> 0,
     current_confidence |-> 0,
     score_trend |-> "STABLE",
     alert_when_return_reaches |-> 15, alert_when_confidence_reaches |-> 80,
     alert_enabled |-> TRUE, alert_triggered |-> FALSE]

\* faulty variant of update_metrics: the alert is set to what the new metrics
\* say, a triggered alert is not kept
update_metrics_resets_alert(self, score, return_potential, confidence) ==
    [self EXCEPT
       !.current_score = score,
       !.current_return_potential = return_potential,
       !.current_confidence = confidence,
       !.alert_triggered =
           /\ self.alert_enabled
           /\ return_potential >= self.alert_when_return_reaches
           /\ confidence >= self.alert_when_confidence_reaches]

\* WatchlistStock.update_metrics: self after the call
update_metrics(self, score, return_potential, confidence) ==
    LET old_score == self.current_score
        score_change == score - old_score
    IN  [self EXCEPT
           !.current_score = score,
           !.current_return_potential = return_potential,
           !.current_confidence = confidence,
           !.score_trend =
               IF old_score > 0
               THEN IF score_change >= 5 THEN "IMPROVING"
                    ELSE IF score_change <= 0 - 5 THEN "DECLINING"
                    ELSE "STABLE"
               ELSE @,
           !.alert_triggered =
               IF self.alert_enabled /\ ~self.alert_triggered
               THEN /\ return_potential >= self.alert_when_return_reaches
                    /\ confidence >= self.alert_when_confidence_reaches
               ELSE @]

\* x or 0
OrZero(x) == IF x = <<>> THEN 0 ELSE x[1]

\* faulty variant of add_stock: no check that the symbol is already there
add_stock_overwrites(wl, symbol, reason, stock) ==
    LET fresh == WatchlistStock(symbol, reason)
        watchlist_stock ==
            IF stock = <<>> THEN fresh
            ELSE [fresh EXCEPT
                    !.initial_score = OrZero(stock[1].overall_score),
                    !.current_score = OrZero(stock[1].overall_score)]
    IN  [success |-> TRUE,
         watchlist |-> [k \in DOMAIN wl \cup {symbol} |->
                           IF k = symbol THEN watchlist_stock ELSE wl[k]]]

\* WatchlistManager.add_stock on the dictionary wl: (success, .) and the
\* dictionary after the call; stock is <<>> for None, its fields are <<>>
\* for None, and int() of a confidence that is not a number raises
add_stock(wl, symbol, reason, stock) ==
    IF symbol \in DOMAIN wl THEN [success |-> FALSE, watchlist |-> wl]
    ELSE IF stock # <<>> /\ stock[1].confidence = <<NaN>>
    THEN [success |-> FALSE, watchlist |-> wl]
    ELSE LET fresh == WatchlistStock(symbol, reason)
             watchlist_stock ==
                 IF stock = <<>> THEN fresh
                 ELSE [fresh EXCEPT
                         !.initial_score = OrZero(stock[1].overall_score),
                         !.initial_return_potential =
                             OrZero(stock[1].estimated_return),
                         !.initial_confidence = OrZero(stock[1].confidence),
                         !.current_score = OrZero(stock[1].overall_score),
                         !.current_return_potential =
                             OrZero(stock[1].estimated_return),
                         !.current_confidence = OrZero(stock[1].confidence)]
         IN  [success |-> TRUE,
              watchlist |-> [k \in DOMAIN wl \cup {symbol} |->
                                IF k = symbol THEN watchlist_stock ELSE wl[k]]]

\* WatchlistManager.remove_stock
remove_stock(wl, symbol) ==
    IF symbol \notin DOMAIN wl THEN [success |-> FALSE, watchlist |-> wl]
    ELSE [success |-> TRUE,
          watchlist |-> [k \in DOMAIN wl \ {symbol} |-> wl[k]]]

WatchSymbols == {"AAPL", "MSFT"}
WatchReasons == {"MANUAL"}
WatchScores == {50, 60}
WatchReturns == {14, 15}
WatchConfidences == {79, 80}

\* the Stock objects given to add_stock: none, one without analysis, analysed
\* ones, and one whose confidence is not a number
WatchStocks ==
    {<<>>,
     <<[overall_score |-> <<>>, estimated_return |-> <<>>, confidence |-> <<>>]>>,
     <<[overall_score |-> <<60>>, estimated_return |-> <<14>>, confidence |-> <<79>>]>>,
     <<[overall_score |-> <<60>>, estimated_return |-> <<15>>, confidence |-> <<NaN>>]>>}

\* the watchlists WatchlistManager.load finds in the file: none, and saved
\* ones with alerts switched off or with other thresholds
SavedWatchlists ==
    {<<>>,
     [k \in {"AAPL"} |->
         [WatchlistStock("AAPL", "MANUAL") EXCEPT !.alert_enabled = FALSE]],
     [k \in {"MSFT"} |->
         [WatchlistStock("MSFT", "MANUAL") EXCEPT
             !.alert_when_return_reaches = 14,
             !.alert_when_confidence_reaches = 79, !.current_score = 50]]}

\* what the watchlist calls do not touch
watch_rest == <<scan_vars, cache_vars, monitor_vars>>

WatchInit ==
    /\ NoScan
    /\ call = NoCall
    /\ outcome = <<>>
    /\ NoCacheCalls
    /\ watchlist \in SavedWatchlists
    /\ NoMonitoring

AddStock(symbol, reason, stock) ==
    /\ call' = [fn |-> "add_stock", symbol |-> symbol, reason |-> reason,
                stock |-> stock]
    /\ outcome' = <<add_stock(watchlist, symbol, reason, stock).success>>
    /\ watchlist' = add_stock(watchlist, symbol, reason, stock).watchlist
    /\ UNCHANGED watch_rest

RemoveStock(symbol) ==
    /\ call' = [fn |-> "remove_stock", symbol |-> symbol]
    /\ outcome' = <<remove_stock(watchlist, symbol).success>>
    /\ watchlist' = remove_stock(watchlist, symbol).watchlist
    /\ UNCHANGED watch_rest

\* update_metrics on a watched stock
UpdateMetrics(symbol, score, return_potential, confidence) ==
    /\ symbol \in DOMAIN watchlist
    /\ call' = [fn |-> "update_metrics", symbol |-> symbol, score |-> score,
                return_potential |-> return_potential,
                confidence |-> confidence]
    /\ outcome' = << <<>> >>
    /\ watchlist' = [watchlist EXCEPT
                       ![symbol] = update_metrics(@, score, return_potential,
                                                  confidence)]
    /\ UNCHANGED watch_rest

WatchNext ==
    \/ \E symbol \in WatchSymbols, reason \in WatchReasons, stock \in WatchStocks :
          AddStock(symbol, reason, stock)
    \/ \E symbol \in WatchSymbols : RemoveStock(symbol)
    \/ \E symbol \in WatchSymbols, score \in WatchScores,
          return_potential \in WatchReturns, confidence \in WatchConfidences :
          UpdateMetrics(symbol, score, return_potential, confidence)

WatchSpec == WatchInit /\ [][WatchNext]_vars

\* the symbols of the watched stocks, as get_all_stocks lists them
WatchedSymbols == {watchlist[k].symbol : k \in DOMAIN watchlist}

C18_OncePerSymbol ==
    /\ \A k \in DOMAIN watchlist : watchlist[k].symbol = k
    /\ Cardinality(WatchedSymbols) = Cardinality(DOMAIN watchlist)

C18_Step ==
    LET before == Cardinality(DOMAIN watchlist)
        after == Cardinality(DOMAIN watchlist')
    IN  /\ call'.fn = "add_stock" =>
              /\ call'.symbol \in DOMAIN watchlist =>
                    outcome' = <<FALSE>> /\ watchlist' = watchlist
              /\ outcome' = <<FALSE>> => watchlist' = watchlist
              /\ outcome' = <<TRUE>> =>
                    /\ after = before + 1
                    /\ call'.symbol \in DOMAIN watchlist'
        /\ call'.fn = "remove_stock" =>
              /\ call'.symbol \notin DOMAIN watchlist =>
                    outcome' = <<FALSE>> /\ watchlist' = watchlist
              /\ outcome' = <<TRUE>> =>
                    /\ after = before - 1
                    /\ call'.symbol \notin DOMAIN watchlist'

(* C18: after any sequence of add_stock / remove_stock calls the watchlist  *)
(* holds each symbol at most once; add_stock of a symbol already present    *)
(* fails and leaves the watchlist unchanged, remove_stock of an absent      *)
(* symbol fails and leaves it unchanged, and a successful add or remove     *)
(* changes the number of watched stocks by exactly one.                     *)
C18_AddRemove == []C18_OncePerSymbol /\ [][C18_Step]_vars

\* an add of a watched symbol has just failed beside another watched stock
C18_Witness ==
    /\ call.fn = "add_stock"
    /\ outcome = <<FALSE>>
    /\ call.symbol \in DOMAIN watchlist
    /\ Cardinality(DOMAIN watchlist) = 2

(* C19: after WatchlistStock.update_metrics alert_triggered is true if and  *)
(* only if it was true before the call, or alerts are enabled and the new   *)
(* return potential >= alert_when_return_reaches and the new confidence >=  *)
(* alert_when_confidence_reaches; a triggered alert stays triggered under   *)
(* every later update.                                                      *)
C19_AlertLatch ==
    [][call'.fn = "update_metrics" =>
          LET self == watchlist[call'.symbol]
              after == watchlist'[call'.symbol]
          IN  /\ after.alert_triggered <=>
                    \/ self.alert_triggered
                    \/ /\ self.alert_enabled
                       /\ call'.return_potential >= self.alert_when_return_reaches
                       /\ call'.confidence >= self.alert_when_confidence_reaches
              /\ self.alert_triggered => after.alert_triggered]_vars

\* a triggered alert was kept by an update with metrics below the thresholds
C19_Witness ==
    /\ call.fn = "update_metrics"
    /\ call.return_potential = 14
    /\ call.confidence = 79
    /\ watchlist[call.symbol].alert_when_return_reaches = 15
    /\ watchlist[call.symbol].alert_triggered

----------------------------------------------------------------------------
(***************************************************************************)
(* core/auto_watchlist.py.  A field of the Stock that may be None is <<>>  *)
(* or <<value>>; history is <<>> or <<frame>>.                             *)
(***************************************************************************)

_check_score_improving(stock) ==
    /\ stock.overall_score # <<>>
    /\ 60 <= stock.overall_score[1]
    /\ stock.overall_score[1] < 80

_check_near_threshold(stock) ==
    LET return_ok == /\ stock.estimated_return # <<>>
                     /\ 10 <= stock.estimated_return[1]
                     /\ stock.estimated_return[1] <= 14
        confidence_ok == /\ stock.confidence # <<>>
                         /\ 70 <= stock.confidence[1]
                         /\ stock.confidence[1] <= 79
    IN  return_ok \/ confidence_ok

_check_macd_early_signal(stock) ==
    /\ stock.history # <<>>
    /\ stock.history[1].bars >= 30
    /\ \/ check_macd_crossover(stock.history[1])
       \/ /\ stock.macd # <<>>
          /\ stock.macd_signal # <<>>
          /\ stock.macd[1] > stock.macd_signal[1]
          /\ stock.history[1].columns
          /\ ~IsNaN(MacdHist(stock.history[1], 1))
          /\ ~IsNaN(MacdHist(stock.history[1], 2))
          /\ MacdHist(stock.history[1], 1) > MacdHist(stock.history[1], 2)
          /\ MacdHist(stock.history[1], 2) > 0

_check_rsi_momentum(stock) ==
    /\ stock.rsi # <<>>
    /\ 45 <= stock.rsi[1]
    /\ stock.rsi[1] <= 65

_check_volume_trend(stock) ==
    /\ stock.history # <<>>
    /\ LET df == stock.history[1]
           volumes == TailOf(df.Volume, 4)
       IN  /\ Len(volumes) = 4
           /\ Cardinality({i \in 1..3 : volumes[i + 1] > volumes[i]}) >= 2
           /\ df.columns =>
                 /\ ~IsNaN(Back(df.Volume_SMA_20, 1))
                 /\ 10 * volumes[4] > 12 * Back(df.Volume_SMA_20, 1)

\* the reasons in the order should_add_to_watchlist collects them
Reasons(stock) ==
    (IF _check_score_improving(stock) THEN <<"SCORE_IMPROVING">> ELSE <<>>)
    \o (IF _check_near_threshold(stock) THEN <<"NEAR_THRESHOLD">> ELSE <<>>)
    \o (IF _check_macd_early_signal(stock) THEN <<"MACD_CROSSOVER">> ELSE <<>>)
    \o (IF _check_rsi_momentum(stock) THEN <<"RSI_MOMENTUM">> ELSE <<>>)
    \o (IF _check_volume_trend(stock) THEN <<"VOLUME_SURGE">> ELSE <<>>)

\* AutoWatchlist.should_add_to_watchlist: (should_add, reason)
should_add_to_watchlist(stock) ==
    IF Len(Reasons(stock)) >= 2
    THEN [should_add |-> TRUE, reason |-> <<Reasons(stock)[1]>>]
    ELSE [should_add |-> FALSE, reason |-> <<>>]

AutoScores == {<<>>, <<40>>, <<59>>, <<60>>, <<79>>, <<80>>}
AutoReturns == {<<>>, <<5>>, <<10>>, <<14>>, <<15>>}
AutoConfidences == {<<>>, <<50>>, <<70>>, <<79>>, <<80>>}
AutoRsis == {<<>>, <<44>>, <<45>>, <<65>>, <<66>>}
AutoMacds == {[macd |-> <<>>, macd_signal |-> <<>>],
              [macd |-> <<5>>, macd_signal |-> <<3>>],
              [macd |-> <<3>>, macd_signal |-> <<5>>]}
AutoHistories ==
    {<<>>} \cup
    {<<[WithVolume(WithMacd(BaseFrame, m), v)
           EXCEPT !.bars = n, !.columns = (n >= 50)]>> :
        m \in {BestMacd, WorstMacd,
               [MACD |-> <<20, 20, 30, 50>>, MACD_signal |-> <<10, 10, 10, 10>>,
                macd_range |-> 30]},
        v \in {BestVolume, WorstVolume,
               [Volume |-> <<900, 900, 1000, 1100, 1150>>,
                Volume_SMA_20 |-> <<1000, 1000, 1000, 1000, 1000>>]},
        n \in {29, 30, 60}}

AutoInit ==
    /\ NoScan
    /\ call \in [fn : {"should_add_to_watchlist"},
                 stock : {[overall_score |-> score, estimated_return |-> ret,
                           confidence |-> conf, rsi |-> rsi, macd |-> m.macd,
                           macd_signal |-> m.macd_signal, history |-> h] :
                             score \in AutoScores, ret \in AutoReturns,
                             conf \in AutoConfidences, rsi \in AutoRsis,
                             m \in AutoMacds, h \in AutoHistories}]
    /\ outcome = <<>>
    /\ NoCacheCalls
    /\ NoWatching
    /\ NoMonitoring

ReturnShouldAdd ==
    /\ Calling("should_add_to_watchlist")
    /\ outcome' = <<should_add_to_watchlist(call.stock)>>
    /\ UNCHANGED <<scan_vars, call, cache_vars, watch_vars, monitor_vars>>

AutoNext == ReturnShouldAdd

AutoSpec == AutoInit /\ [][AutoNext]_vars

\* the Optional number is below n (None is not)
Below(x, n) == x # <<>> /\ x[1] < n

(* C20: should_add_to_watchlist never returns should_add = True for a stock *)
(* whose overall score is below 60, estimated return below 10% and          *)
(* confidence below 70, and it adds a stock with score in [60,80) and       *)
(* return in [10,14].                                                       *)
C20_QualityGate ==
    Called("should_add_to_watchlist") =>
       /\ (/\ Below(call.stock.overall_score, 60)
           /\ Below(call.stock.estimated_return, 10)
           /\ Below(call.stock.confidence, 70)) => ~outcome[1].should_add
       /\ (/\ _check_score_improving(call.stock)
           /\ call.stock.estimated_return \in {<<10>>, <<14>>})
             => outcome[1].should_add

\* what holds: a stock is added exactly when two of the five signals hold,
\* so one with score in [60,80) and return in [10,14] is, and one of low
\* quality is not unless two of the MACD, RSI and volume signals hold
C20_TwoSignals ==
    Called("should_add_to_watchlist") =>
       /\ outcome[1].should_add <=> Len(Reasons(call.stock)) >= 2
       /\ (/\ _check_score_improving(call.stock)
           /\ call.stock.estimated_return \in {<<10>>, <<14>>})
             => outcome[1] = [should_add |-> TRUE, reason |-> <<"SCORE_IMPROVING">>]
       /\ (/\ Below(call.stock.overall_score, 60)
           /\ Below(call.stock.estimated_return, 10)
           /\ Below(call.stock.confidence, 70)
           /\ outcome[1].should_add)
             => outcome[1].reason \in {<<"MACD_CROSSOVER">>, <<"RSI_MOMENTUM">>}

----------------------------------------------------------------------------
(* C21: Stage 1 and the cache *)

\* the file of the cache entry of the symbol at watchlist position i
FileAt(i) == GetCacheFile(StockKey(symbols[i]))

\* the cache holds an entry for position i that is not older than the duration
CachedAt(i) ==
    /\ FileAt(i) \in DOMAIN cache
    /\ now - cache[FileAt(i)].timestamp <= CACHE_DURATION_HOURS

\* one iteration of the Stage-1 loop is being taken
FetchStep == pc = "stage1" /\ idx' = idx + 1

\* C21, one iteration: on a hit the data source is not called, the cache stays
\* as it is and the Stock is built from the cached payload; on a miss the data
\* source is called once, a payload is stored under the symbol's key with the
\* time of the call whatever the filters decide, and None stores nothing
C21_Step ==
    FetchStep =>
        /\ Len(fetch_calls') = idx
        /\ \A f \in DOMAIN cache \ {FileAt(idx)} :
               f \in DOMAIN cache' /\ cache'[f] = cache[f]
        /\ IF CachedAt(idx)
           THEN /\ fetch_calls'[idx] = 0
                /\ cache' = cache
                /\ status'[idx] = "Filtered" =>
                       /\ Len(candidates') = Len(candidates) + 1
                       /\ candidates'[Len(candidates')] =
                              MakeStock(cache[FileAt(idx)].value, idx)
           ELSE /\ fetch_calls'[idx] = 1
                /\ IF get_stock_data(symbols[idx]) # <<>>
                   THEN /\ FileAt(idx) \in DOMAIN cache'
                        /\ cache'[FileAt(idx)] =
                               [timestamp |-> now,
                                value |-> get_stock_data(symbols[idx])[1]]
                   ELSE /\ FileAt(idx) \notin DOMAIN cache'
                        /\ status'[idx] = "Rejected"

\* C21: in Stage 1 an unexpired cache entry is served without calling the data
\* source; on a miss the data source is called exactly once for the symbol and
\* a non-empty result is stored under the symbol's key before the filters run,
\* while an empty fetch stores nothing
C21_CacheBeforeFetch == [][C21_Step]_vars

\* a second scan, 4 hours after the first: a symbol the first scan rejected is
\* served from the entry that scan stored, and a symbol without data is asked
\* for again and leaves no entry
C21_Witness ==
    /\ pc = "stage1"
    /\ Len(results) = 1
    /\ \E i \in 1..Len(fetch_calls) :
           /\ fetch_calls[i] = 0
           /\ status[i] = "Rejected"
           /\ FileAt(i) \in DOMAIN cache
           /\ cache[FileAt(i)].timestamp = 0
    /\ \E j \in 1..Len(fetch_calls) :
           /\ fetch_calls[j] = 1
           /\ FileAt(j) \notin DOMAIN cache

----------------------------------------------------------------------------
(* C22: the RSI score, part by part *)

\* frames whose RSI column ends with four values: the latest one at every
\* boundary of the score, the two it could be compared with on either side of
\* the latest or null, also without the column and with 1 to 4 bars
RisingFrames ==
    LET full == {[BaseFrame EXCEPT !.RSI = <<fourth, third, 50, rsi>>] :
                    fourth \in {NaN, 20, 99}, third \in {NaN, 20, 99},
                    rsi \in RsiLevels}
    IN  Variants(full) \cup {Short(df, 3) : df \in full}

RsiInit ==
    /\ NoScan
    /\ call \in [fn : {"calculate_rsi_score"}, df : RisingFrames]
    /\ outcome = <<>>
    /\ NoCacheCalls
    /\ NoWatching
    /\ NoMonitoring

RsiNext == ReturnRsiScore

RsiSpec == RsiInit /\ [][RsiNext]_vars

\* the latest RSI of the frame: its last cell, null without the column
LatestRsi(df) == IF df.columns THEN Back(df.RSI, 1) ELSE NaN

\* the points the property lists, with "rising" meaning: above the RSI back
\* bars before the latest bar (none when the frame has no such bar or the
\* cell is null)
RsiPoints(df, back) ==
    LET rsi == LatestRsi(df)
        zone == IF 45 <= rsi /\ rsi <= 65 THEN 50
                ELSE IF (35 <= rsi /\ rsi < 45) \/ (65 < rsi /\ rsi <= 70) THEN 25
                ELSE 0
        rising == IF df.bars > back
                  THEN IF ~IsNaN(Back(df.RSI, back + 1))
                          /\ rsi > Back(df.RSI, back + 1)
                       THEN 25 ELSE 0
                  ELSE 0
        room == IF rsi < 70 THEN 25 ELSE IF rsi < 80 THEN 10 ELSE 0
    IN  IF IsNaN(rsi) THEN 0
        ELSE IF zone + rising + room > 100 THEN 100 ELSE zone + rising + room

\* C22 as stated: the RSI score is the capped sum of the zone points, +25 when
\* the latest RSI is above the RSI 3 bars before the latest bar, and the
\* not-overbought points; a null latest RSI gives 0
C22_RisingOverThreeBars ==
    Called("calculate_rsi_score") => outcome[1] = RsiPoints(call.df, 3)

\* C22, amended: the same sum, with the +25 given when the latest RSI is above
\* the RSI 2 bars before the latest bar (the third-last value of the column)
C22_RisingOverTwoBars ==
    Called("calculate_rsi_score") => outcome[1] = RsiPoints(call.df, 2)

\* the score 75 = 25 + 25 + 25 was returned for an RSI of 66 that is above the
\* third-last value and below the fourth-last one
C22_Witness ==
    /\ Called("calculate_rsi_score")
    /\ call.df.columns
    /\ Len(call.df.RSI) = 4
    /\ Back(call.df.RSI, 1) = 66
    /\ Back(call.df.RSI, 3) = 20
    /\ Back(call.df.RSI, 4) = 99
    /\ outcome[1] = 75

----------------------------------------------------------------------------
(* C23: calculate_technical_target called on its own *)

\* the five highest highs of the trailing 20 bars, highest first
TargetHighs ==
    {<<Dollars(112), Dollars(110), Dollars(106), Dollars(102), Dollars(98)>>,
     <<Dollars(110), Dollars(110), Dollars(110), Dollars(110), Dollars(110)>>,
     <<Dollars(104), Dollars(104), Dollars(103), Dollars(102), Dollars(101)>>}

\* the last close: never above the highest high
TargetCloses == {Dollars(96), Dollars(100), Dollars(104)}

\* the current price handed in: the last close, or a quote on either side
TargetPrices ==
    {Dollars(95), Dollars(96), Dollars(100), Dollars(101), Dollars(104),
     Dollars(105), Dollars(108), Dollars(110), Dollars(112), Dollars(115)}

TargetFrames ==
    {EstimatorFrame(
        [BaseFrame EXCEPT !.Close = [i \in 1..6 |-> close],
                          !.high_points = highs, !.high_max = highs[1]],
        Number(0), <<>>) :
        close \in TargetCloses, highs \in TargetHighs}

TargetInit ==
    /\ NoScan
    /\ call \in [fn : {"calculate_technical_target"}, df : TargetFrames,
                 current_price : TargetPrices]
    /\ outcome = <<>>
    /\ NoCacheCalls
    /\ NoWatching
    /\ NoMonitoring

ReturnTechnicalTarget ==
    /\ Calling("calculate_technical_target")
    /\ outcome' = <<calculate_technical_target(call.df, call.current_price)>>
    /\ UNCHANGED <<scan_vars, call, cache_vars, watch_vars, monitor_vars>>

TargetNext == ReturnTechnicalTarget

TargetSpec == TargetInit /\ [][TargetNext]_vars

\* the top highs of the frame that are strictly above a price
LevelsAbove(df, price) ==
    {df.high_points[i] : i \in {j \in DOMAIN df.high_points :
                                   df.high_points[j] > price}}

\* the percentage distance from a price to the nearest top high strictly above
\* it, 0 without such a level
DistanceToNearestAbove(df, price) ==
    LET above == LevelsAbove(df, price)
        nearest == CHOOSE r \in above : \A other \in above : r <= other
    IN  IF above = {} THEN Number(0)
        ELSE Reduced([num |-> (nearest - price) * 100, den |-> price])

\* C23: the technical return signal is the percentage distance from the
\* supplied current price to the nearest resistance level strictly above it,
\* 0 when there is none, also when that price is not the last close
C23_NearestAboveCurrentPrice ==
    Called("calculate_technical_target") =>
        outcome[1] = DistanceToNearestAbove(call.df, call.current_price)

\* what holds: the statement for a current price that is the last close
C23_WhenPriceIsLastClose ==
    (Called("calculate_technical_target")
        /\ call.current_price = Back(call.df.Close, 1)) =>
        outcome[1] = DistanceToNearestAbove(call.df, call.current_price)

----------------------------------------------------------------------------
(* C24, C25: the prices of the emitted trades *)

\* every trade a scan has built or returned so far
EmittedTrades ==
    {trades[i] : i \in 1..Len(trades)}
        \cup UNION {{results[r].trades[i] : i \in 1..Len(results[r].trades)} :
                       r \in 1..Len(results)}

\* C24, one trade: the stop is not further than MAX_LOSS_PERCENT below the
\* entry, the entry is between stop and target, so the loss at the stop is at
\* most MAX_LOSS_PERCENT of the position value and entry - stop is positive
PricesInOrder(trade) ==
    /\ trade.entry_price * (100 - MAX_LOSS_PERCENT) <= trade.stop_price * 100
    /\ trade.stop_price < trade.entry_price
    /\ trade.entry_price < trade.target_price
    /\ trade.max_loss * 100 <= MAX_LOSS_PERCENT * trade.position_value
    /\ trade.risk_reward_ratio.den = trade.entry_price - trade.stop_price
    /\ trade.risk_reward_ratio.den > 0

Tier1Trades ==
    UNION {{results[r].trades[i] : i \in 1..Len(results[r].trades)} :
              r \in {q \in 1..Len(results) : results[q].tier = 1}}

----------------------------------------------------------------------------
(* C26: short histories stop in Stage 1 *)

\* the watchlist positions whose payload has fewer than 50 bars
ShortHistories ==
    {i \in 1..Len(symbols) : DataAt(i).fetched /\ DataAt(i).history.bars < 50}

\* the stocks Stage 1 let through, and everything made from them
PastStage1 ==
    {candidates[i] : i \in 1..Len(candidates)}
        \cup {scored_stocks[i] : i \in 1..Len(scored_stocks)}
        \cup {estimated_stocks[i] : i \in 1..Len(estimated_stocks)}
        \cup {top_stocks[i] : i \in 1..Len(top_stocks)}

\* C26: a symbol whose history has fewer than 50 bars is always rejected in
\* Stage 1 (without ATR column its volatility is 0, below MIN_VOLATILITY), so
\* scoring and return estimation never run on a series without indicators
C26_ShortHistoryRejected ==
    /\ \A i \in ShortHistories :
          /\ i \in Fetched => status[i] = "Rejected"
          /\ i \notin Positions(candidates) \cup Downstream
    /\ \A stock \in PastStage1 : stock.history.bars >= 50

\* a scan returned trades although one of its symbols, rejected in Stage 1,
\* had 49 bars and a quote and an ATR that would have passed every filter
C26_Witness ==
    /\ Returned
    /\ LastResult.trades # <<>>
    /\ \E i \in ShortHistories :
          /\ status[i] = "Rejected"
          /\ DataAt(i).defect = "none"
          /\ passes_basic_filters(MakeStock(DataAt(i), i), MIN_PRICE, MAX_PRICE,
                                  MIN_VOLUME, MIN_MARKET_CAP)
          /\ DataAt(i).history.atr * 100 >= MIN_VOLATILITY * DataAt(i).history.close

----------------------------------------------------------------------------
(* C27: confidence and estimated return vanish together *)

\* the three return signals of a call of estimate_return_potential
SignalsOf(c) ==
    <<calculate_historical_volatility(c.df),
      calculate_technical_target(c.df, c.current_price),
      calculate_momentum_projection(c.df)>>

\* a float above 0, +infinity included
Positive(x) == x.num > 0 /\ x.den >= 0

\* an estimate was computed and returned for a frame of at least 30 bars
Estimated ==
    /\ Called("estimate_return_potential")
    /\ call.df.bars >= 30
    /\ ~outcome[1].raised

\* C27: for every estimate computed on at least 30 bars the confidence is 0
\* exactly when the estimated return is 0, which is when all three return
\* signals are 0, whatever the technical and volume points would have been;
\* an estimated return above 0 has a confidence of at least 10
C27_ZeroTogether ==
    Estimated =>
        LET value == outcome[1].value
            signals == SignalsOf(call)
        IN  /\ value.confidence = 0 <=> value.estimated_return = Number(0)
            /\ value.estimated_return = Number(0) <=>
                   \A k \in 1..3 : signals[k] = Number(0)
            /\ Positive(value.estimated_return) => value.confidence >= 10

\* an estimate of 0 with confidence 0 was returned for a frame whose technical
\* and volume points alone would have given 70
C27_Witness ==
    /\ Estimated
    /\ outcome[1].value.estimated_return = Number(0)
    /\ outcome[1].value.confidence = 0
    /\ calculate_technical_strength(call.df)
          + calculate_volume_confidence(call.df) = 70

----------------------------------------------------------------------------
(* C28: the min_return argument *)

\* watchlists that end in Tier 1, in Tier 2 and in Tier 3
ArgumentWatchlists ==
    Lists(TopGroup, MaxTop) \cup Lists({MA, MB, MC}, MaxLen) \cup Mixed

ArgumentInit ==
    /\ Init
    /\ watchlist_file.state = "ok"
    /\ watchlist_file.content \in ArgumentWatchlists

ArgumentNext ==
    \/ ScanSectorWith
    \/ ScanWatchlistWith
    \/ Stage1Step
    \/ Stage1Done
    \/ Stage2Step
    \/ Stage2Done
    \/ Stage3Step
    \/ Categorize
    \/ CreateTradeStep
    \/ ReturnResult
    \/ Rescan

ArgumentSpec == ArgumentInit /\ [][ArgumentNext]_vars

----------------------------------------------------------------------------
(* C29: a completed set and the expiry removal of an earlier get *)

\* the last set of the key has completed and its entry is within the duration
SetCompleted ==
    /\ setter = Idle
    /\ stored # <<>>
    /\ now - stored[RaceKey].timestamp <= CACHE_DURATION_HOURS

\* what a get issued now and run to its end beside no other call returns,
\* as its two halves: the entry on disk when it is whole and not expired
GetAlone ==
    LET file == GetCacheFile(RaceKey) IN
    IF file \notin DOMAIN disk THEN <<>>
    ELSE IF Len(disk[file]) < 2 THEN <<>>
    ELSE IF now - disk[file][1].timestamp > CACHE_DURATION_HOURS THEN <<>>
    ELSE << <<disk[file][1].value, disk[file][2].value>> >>

\* C29, the get returns: having read the entry of the completed set, with no
\* other set started since, it returns the value of that set
C29_Returned ==
    (SetCompleted /\ getter # Idle /\ getter' = Idle
        /\ Len(getter.buf) = 2
        /\ getter.buf = Pickled(stored[RaceKey].value, stored[RaceKey].timestamp)) =>
        outcome' = << << <<stored[RaceKey].value, stored[RaceKey].value>> >> >>

\* C29: a value stored by Cache.set(key, v) is not lost to a concurrent
\* Cache.get(key): once set has completed, a get issued within the duration
\* returns v, even if another get of the key had read the previous, expired
\* entry before the set and removes the file after it
C29_SetNotLost ==
    (SetCompleted /\ getter = Idle) =>
        GetAlone = << <<stored[RaceKey].value, stored[RaceKey].value>> >>

\* what holds: the get that has read the entry of a completed set returns it
C29_ReadEntryReturned == [][C29_Returned]_vars

----------------------------------------------------------------------------
(***************************************************************************)
(* day_trading/live_monitor.py.                                            *)
(*                                                                         *)
(* monitored_trades is the list LiveMonitor.monitored_trades; a            *)
(* MonitoredTrade keeps its prices, its entry time, its status and its     *)
(* exit, the P&L fields and the list of checks are left out.               *)
(* checked.calls counts the check_positions calls and stands for           *)
(* datetime.now() (entry_time and exit_time are the number of calls made   *)
(* so far, 0 for a trade of an earlier run), checked.force_exit tells      *)
(* whether the last call ran at or after DAY_TRADE_FORCE_EXIT_TIME.  The   *)
(* quote of a symbol is a price, 0 (no price in ticker.info) or NaN for a  *)
(* lookup that raises.                                                     *)
(***************************************************************************)

\* most trades added to a monitor, most check_positions calls
MaxTrades == 2
MaxChecks == 2

\* MonitoredTrade(opportunity), made at the time at
MonitoredTrade(opportunity, at) ==
    [entry_time |-> at,
     entry_price |-> opportunity.entry_price,
     target_price |-> opportunity.target_price,
     stop_price |-> opportunity.stop_price,
     current_price |-> opportunity.current_price,
     status |-> "MONITORING", exit_time |-> <<>>, exit_price |-> <<>>]

\* _check_single_position at the time at: the trade as the call leaves it
check_single_position(trade, current_price, at, force_exit) ==
    IF IsNaN(current_price) THEN trade            \* except Exception: print
    ELSE IF current_price = 0 THEN trade          \* unable to get current price
    ELSE LET priced == [trade EXCEPT !.current_price = current_price]
             closed(exit) == [priced EXCEPT !.status = exit,
                                            !.exit_time = <<at>>,
                                            !.exit_price = <<current_price>>]
         IN  IF current_price >= trade.target_price THEN closed("TARGET_HIT")
             ELSE IF current_price <= trade.stop_price THEN closed("STOP_HIT")
             ELSE IF force_exit THEN closed("FORCE_EXIT")
             ELSE priced

\* faulty variant of check_positions: the closed trades are checked too
check_positions_all(active, quotes, at, force_exit) ==
    [i \in DOMAIN active |-> check_single_position(active[i], quotes[i], at, force_exit)]

\* check_positions: the monitored trades as the call leaves them; quotes[i] is
\* what the lookup for trade i gives
check_positions(monitored, quotes, at, force_exit) ==
    [i \in DOMAIN monitored |->
        IF monitored[i].status = "MONITORING"
        THEN check_single_position(monitored[i], quotes[i], at, force_exit)
        ELSE monitored[i]]

\* the opportunities added: a long trade, and one whose target and stop meet
Opportunities ==
    {[entry_price |-> Dollars(100), target_price |-> Dollars(102),
      stop_price |-> Dollars(99), current_price |-> Dollars(100)],
     [entry_price |-> Dollars(100), target_price |-> Dollars(100),
      stop_price |-> Dollars(100), current_price |-> Dollars(100)]}

\* the days argument of clear_old_trades, in the unit of checked.calls
ClearDays == {0, 1}

\* what a price lookup gives
Quotes == {NaN, 0, Dollars(99), Dollars(100), Dollars(102)}

\* a trade of the long opportunity as an earlier run saved it
SavedTrade(exit, price, left) ==
    [entry_time |-> 0, entry_price |-> Dollars(100),
     target_price |-> Dollars(102), stop_price |-> Dollars(99),
     current_price |-> price, status |-> exit,
     exit_time |-> left, exit_price |-> IF left = <<>> THEN <<>> ELSE <<price>>]

\* _load_trades: what monitored_trades.json gives: no file, a trade still
\* monitored, a trade closed within the last day
LoadedTrades ==
    {<<>>,
     <<SavedTrade("MONITORING", Dollars(100), <<>>)>>,
     <<SavedTrade("TARGET_HIT", Dollars(102), <<0>>)>>}

\* LiveMonitor()
MonitorInit ==
    /\ NoScan
    /\ call = NoCall
    /\ outcome = <<>>
    /\ NoCacheCalls
    /\ NoWatching
    /\ monitored_trades \in LoadedTrades
    /\ checked = [calls |-> 0, force_exit |-> FALSE]

\* add_trade(opportunity)
AddTrade(opportunity) ==
    /\ Len(monitored_trades) < MaxTrades
    /\ monitored_trades' =
           Append(monitored_trades, MonitoredTrade(opportunity, checked.calls))
    /\ UNCHANGED <<scan_vars, call, outcome, cache_vars, watch_vars, checked>>

\* clear_old_trades(days)
ClearOldTrades(days) ==
    LET cutoff == checked.calls - days
        keep(t) == t.entry_time > cutoff \/ t.status = "MONITORING"
    IN  /\ monitored_trades' = SelectSeq(monitored_trades, keep)
        /\ monitored_trades' # monitored_trades
        /\ UNCHANGED <<scan_vars, call, outcome, cache_vars, watch_vars, checked>>

\* check_positions()
CheckPositions(quotes, force_exit) ==
    /\ checked.calls < MaxChecks
    /\ checked' = [calls |-> checked.calls + 1, force_exit |-> force_exit]
    /\ monitored_trades' =
           check_positions(monitored_trades, quotes, checked.calls + 1, force_exit)
    /\ UNCHANGED <<scan_vars, call, outcome, cache_vars, watch_vars>>

MonitorNext ==
    \/ \E opportunity \in Opportunities : AddTrade(opportunity)
    \/ \E quotes \in [DOMAIN monitored_trades -> Quotes], force_exit \in BOOLEAN :
           CheckPositions(quotes, force_exit)
    \/ \E days \in ClearDays : ClearOldTrades(days)

MonitorSpec == MonitorInit /\ [][MonitorNext]_vars

\* the trade at position i is closed
Closed(i) == monitored_trades[i].status # "MONITORING"

\* C30, one check_positions call: a closed trade keeps its status, exit price
\* and exit time; a trade the call closes gets TARGET_HIT at or above its
\* target, else STOP_HIT at or below its stop, else FORCE_EXIT at the
\* force-exit time, with the price and the time of that check
C30_Check ==
    \A i \in DOMAIN monitored_trades :
        LET before == monitored_trades[i]
            after == monitored_trades'[i]
        IN  /\ i \in DOMAIN monitored_trades'
            /\ Closed(i) =>
                  /\ after.status = before.status
                  /\ after.exit_price = before.exit_price
                  /\ after.exit_time = before.exit_time
            /\ (~Closed(i) /\ after.status # "MONITORING") =>
                  /\ after.exit_price = <<after.current_price>>
                  /\ after.exit_time = <<checked'.calls>>
                  /\ after.status = "TARGET_HIT" <=>
                         after.current_price >= before.target_price
                  /\ after.status = "STOP_HIT" <=>
                         /\ after.current_price < before.target_price
                         /\ after.current_price <= before.stop_price
                  /\ after.status = "FORCE_EXIT" <=>
                         /\ after.current_price < before.target_price
                         /\ after.current_price > before.stop_price
                         /\ checked'.force_exit

\* C30, any step: a check_positions call is as C30_Check says, and between
\* the calls (add_trade, clear_old_trades) every closed trade of the list was
\* in the list before, closed in the same way
C30_Step ==
    IF checked' # checked THEN C30_Check
    ELSE \A j \in DOMAIN monitored_trades' :
             monitored_trades'[j].status # "MONITORING" =>
                 \E i \in DOMAIN monitored_trades :
                     monitored_trades[i] = monitored_trades'[j]

\* C30: a monitored day trade's status is absorbing once it leaves
\* MONITORING: after a check_positions call sets TARGET_HIT, STOP_HIT or
\* FORCE_EXIT (target before stop, stop before the force-exit time) no later
\* check_positions call changes its status, exit_price or exit_time, whatever
\* prices follow
C30_ClosedStaysClosed == [][C30_Step]_vars

\* a trade stopped out by the first check is still STOP_HIT with its exit of
\* the first check after a later check that ran past the force-exit time,
\* beside a trade that check closed as FORCE_EXIT
C30_Witness ==
    /\ checked.calls >= 2
    /\ checked.force_exit
    /\ \E i, j \in DOMAIN monitored_trades :
          /\ monitored_trades[i].status = "STOP_HIT"
          /\ monitored_trades[i].exit_time = <<1>>
          /\ monitored_trades[i].exit_price = <<Dollars(99)>>
          /\ monitored_trades[j].status = "FORCE_EXIT"
          /\ monitored_trades[j].exit_time = <<checked.calls>>

====
